---------------------------- MODULE Spec2Model ----------------------------
(***************************************************************************)
(* A model of Oclgrind's WorkloadCharacterisation plugin (AIWC):           *)
(* src/src/plugins/WorkloadCharacterisation.cpp.                           *)
(*                                                                         *)
(* The plugin object holds the invocation aggregate (the m_* members), the *)
(* transfer log and one mutex; every interpreter thread holds a            *)
(* thread-local WorkerState (m_state).  The interpreter calls the handlers *)
(* modelled below.  The interpreter itself is not part of the plugin: the  *)
(* order in which it calls the handlers is the environment of the model.   *)
(*                                                                         *)
(* Doubles produced by entropy() and parallelSpatialLocality() are kept    *)
(* symbolically, as the histograms and denominators that determine them.   *)
(***************************************************************************)
EXTENDS Integers, Sequences, FiniteSets, TLC

(***************************************************************************)
(* Bounds of the model.                                                    *)
(***************************************************************************)
NumThreads == 2        \* interpreter worker threads
MaxKernels == 2        \* kernel invocations in one run
MaxGroups == 2         \* work-groups in one run
MaxInstr == 2          \* instructionExecuted callbacks in one run
MaxMem == 1            \* memory callbacks in one run
MaxBarriers == 1       \* work-group barriers in one run
MaxCopies == 3         \* host<->device copies in one run
MaxTransferKernels == 3 \* kernel invocations in one run of the transfer tracker
MaxMergeGroups == 3    \* work-groups in one run of the merger
MaxFiles == 2          \* candidate numbers of the sidecar file that may exist
MaxProbe == 3          \* iterations of the sidecar file search that are followed
MaxReportKernels == 2  \* kernel invocations of a run that writes reports
MaxReportGroups == 2   \* work-groups of such a run
MaxReportFiles == 1    \* candidate numbers of the report file that may exist

(***************************************************************************)
(* Program constants.                                                      *)
(***************************************************************************)
m == 16                \* branch history window
NSKIP == 11            \* entries of an entropy / PSL vector
UINT16 == 65536        \* current_pattern is a uint16_t

Workers == 1 .. NumThreads
NoThread == 0
NULL == "NULL"

KernelNames == {"k1", "k2"}

(***************************************************************************)
(* unordered_map: a function on the keys present.  operator[] on a missing *)
(* key value-initialises it to 0.                                          *)
(***************************************************************************)
EmptyMap == <<>>

Get(map, k) == IF k \in DOMAIN map THEN map[k] ELSE 0

Put(map, k, v) == [x \in (DOMAIN map) \cup {k} |-> IF x = k THEN v ELSE map[x]]

\* map[k] += n
AddTo(map, k, n) == Put(map, k, Get(map, k) + n)

\* the sum of the mapped values
RECURSIVE SumMap(_)
SumMap(map) ==
  IF DOMAIN map = {} THEN 0
  ELSE LET k == CHOOSE x \in DOMAIN map : TRUE
       IN map[k] + SumMap([x \in (DOMAIN map) \ {k} |-> map[x]])

RECURSIVE SumSeq(_)
SumSeq(s) == IF s = <<>> THEN 0 ELSE Head(s) + SumSeq(Tail(s))

Max(a, b) == IF a > b THEN a ELSE b

(***************************************************************************)
(* Geometry.  A Size3 is <<x, y, z>>.                                      *)
(***************************************************************************)
LocalSizes == {<<1, 1, 1>>, <<1, 2, 1>>}

Volume(size) == size[1] * size[2] * size[3]

\* the local ids of the work-items of a group
LocalIDs(size) ==
  {<<x, y, z>> : x \in 0 .. size[1] - 1, y \in 0 .. size[2] - 1, z \in 0 .. size[3] - 1}

\* the ledger row of a work-item, 0-based as in the source
LedgerRow(localID, local_num) ==
  localID[1] * local_num[2] * local_num[3] + localID[2] * local_num[3] + localID[3]


(***************************************************************************)
(* Instructions of the kernel being interpreted.  An instruction is what   *)
(* the handlers read of an llvm::Instruction: its opcode, whether it is a  *)
(* LoadInst or a StoreInst and then the address space and name of its      *)
(* pointer operand, its operands (for each whether it is label-typed, and  *)
(* the basic block it names), its parent basic block and its handle.       *)
(***************************************************************************)
AddrSpacePrivate == 0
AddrSpaceGlobal == 1
AddrSpaceConstant == 2
AddrSpaceLocal == 3

Operand(isLabel, bb) == [isLabelTy |-> isLabel, bb |-> bb]

Instr(handle, opcode, parent, operands, space, name) ==
  [handle |-> handle, opcode |-> opcode, parent |-> parent, operands |-> operands,
   addressSpace |-> space, pointerName |-> name]

iAdd == Instr("add1", "Add", "B1", <<Operand(FALSE, NULL), Operand(FALSE, NULL)>>, 0, "")
iLoadG == Instr("load1", "Load", "B1", <<Operand(FALSE, NULL)>>, AddrSpaceGlobal, "a")
iLoadP == Instr("load2", "Load", "B2", <<Operand(FALSE, NULL)>>, AddrSpacePrivate, "p")
iStoreL == Instr("store1", "Store", "B2", <<Operand(FALSE, NULL), Operand(FALSE, NULL)>>,
                 AddrSpaceLocal, "b")
iStoreC == Instr("store2", "Store", "B2", <<Operand(FALSE, NULL), Operand(FALSE, NULL)>>,
                 AddrSpaceConstant, "c")
\* conditional branches: operand 0 is the condition, operands 1 and 2 the targets
iBr1 == Instr("br1", "Br", "B1",
              <<Operand(FALSE, NULL), Operand(TRUE, "B1"), Operand(TRUE, "B2")>>, 0, "")
iBr2 == Instr("br2", "Br", "B2",
              <<Operand(FALSE, NULL), Operand(TRUE, "B1"), Operand(TRUE, "B2")>>, 0, "")
\* an unconditional branch has one operand
iJmp == Instr("jmp1", "Br", "B2", <<Operand(TRUE, "B1")>>, 0, "")
\* an instruction of a block that is a target of neither branch
iRet == Instr("ret1", "Ret", "B3", <<>>, 0, "")
Instructions == {iAdd, iLoadG, iLoadP, iStoreL, iStoreC, iBr1, iBr2, iJmp, iRet}

IsLoadInst(instruction) == instruction.opcode = "Load"
IsStoreInst(instruction) == instruction.opcode = "Store"

(***************************************************************************)
(* entropy(histogram), lines 302-331.  The double of skip nskip is         *)
(* -sum p*log2(p) over the buckets of address >> nskip, with               *)
(* p = count / (total + 1); it is kept as the bucket counts and the        *)
(* denominator.  A histogram without accesses gives 11 zeros.              *)
(***************************************************************************)
ShiftRight(address, nskip) == address \div (2 ^ nskip)

Bucketed(histogram, nskip) ==
  LET buckets == {ShiftRight(a, nskip) : a \in DOMAIN histogram}
  IN [b \in buckets |->
        SumMap([a \in {x \in DOMAIN histogram : ShiftRight(x, nskip) = b} |-> histogram[a]])]

ZeroEntropy == [counts |-> EmptyMap, denom |-> 1]

entropy(histogram) ==
  LET total_access_count == SumMap(histogram)
  IN IF total_access_count = 0
     THEN [nskip \in 1 .. NSKIP |-> ZeroEntropy]
     ELSE [nskip \in 1 .. NSKIP |->
             [counts |-> Bucketed(histogram, nskip - 1), denom |-> total_access_count + 1]]

(***************************************************************************)
(* parallelSpatialLocality(hist), lines 333-360: one histogram per         *)
(* timestep over the rows that reach it; psl[i] is the sum of the          *)
(* timesteps' entropies divided by (number of timesteps + 1).              *)
(***************************************************************************)
RECURSIVE MaxRowLength(_)
MaxRowLength(hist) ==
  IF hist = <<>> THEN 0 ELSE Max(Len(Head(hist)), MaxRowLength(Tail(hist)))

RECURSIVE StepHistogram(_, _, _)
StepHistogram(hist, j, i) ==
  \* rows j .. Len(hist) at timestep i (1-based)
  IF j > Len(hist) THEN EmptyMap
  ELSE IF i > Len(hist[j]) THEN StepHistogram(hist, j + 1, i)
  ELSE AddTo(StepHistogram(hist, j + 1, i), hist[j][i].address, 1)

parallelSpatialLocality(hist) ==
  LET maxLength == MaxRowLength(hist)
      entropies == [i \in 1 .. maxLength |-> entropy(StepHistogram(hist, 1, i))]
  IN [entropies |-> entropies, denom |-> Len(entropies) + 1]

(***************************************************************************)
(* WorkerState: the thread-local m_state.  Before the thread's first       *)
(* work-group the container pointers are NULL (created = FALSE), the       *)
(* ledger is an empty vector and the scalars are zero (line 39).           *)
(***************************************************************************)
NullState ==
  [created |-> FALSE,
   storeOps |-> EmptyMap, loadOps |-> EmptyMap, computeOps |-> EmptyMap,
   branchOps |-> EmptyMap, instructionsBetweenBarriers |-> <<>>,
   instructionWidth |-> EmptyMap, instructionsPerWorkitem |-> <<>>,
   instructionsBetweenLoadOrStore |-> <<>>,
   loadInstructionLabels |-> EmptyMap, storeInstructionLabels |-> EmptyMap,
   ledger |-> <<>>, psl_per_barrier |-> <<>>,
   threads_invoked |-> 0, instruction_count |-> 0, workitem_instruction_count |-> 0,
   ops_between_load_or_store |-> 0, barriers_hit |-> 0,
   constant_memory_access_count |-> 0, local_memory_access_count |-> 0,
   global_memory_access_count |-> 0,
   previous_instruction_is_branch |-> FALSE, target1 |-> NULL, target2 |-> NULL,
   branch_loc |-> NULL]

\* lines 696-711: the containers are allocated once, the ledger sized once
CreateWorkerState(s, local_num) ==
  IF s.created THEN s
  ELSE [s EXCEPT !.created = TRUE,
                 !.ledger = [i \in 1 .. Volume(local_num) |-> <<>>],
                 !.psl_per_barrier = <<>>]

ClearRows(ledger) == [i \in 1 .. Len(ledger) |-> <<>>]

\* lines 713-741: what every work-group begin resets
ResetWorkerState(s) ==
  [s EXCEPT !.storeOps = EmptyMap, !.loadOps = EmptyMap, !.computeOps = EmptyMap,
            !.branchOps = EmptyMap, !.instructionsBetweenBarriers = <<>>,
            !.instructionWidth = EmptyMap, !.instructionsPerWorkitem = <<>>,
            !.instructionsBetweenLoadOrStore = <<>>,
            !.loadInstructionLabels = EmptyMap, !.storeInstructionLabels = EmptyMap,
            !.threads_invoked = 0, !.instruction_count = 0, !.barriers_hit = 0,
            !.constant_memory_access_count = 0, !.local_memory_access_count = 0,
            !.global_memory_access_count = 0,
            !.previous_instruction_is_branch = FALSE, !.target1 = NULL,
            !.target2 = NULL, !.branch_loc = NULL,
            !.ledger = ClearRows(s.ledger)]

\* workGroupBegin, lines 693-742
WorkGroupBeginState(s, local_num) == ResetWorkerState(CreateWorkerState(s, local_num))

(***************************************************************************)
(* threadMemoryLedger, lines 104-112.  The row index is computed from the  *)
(* invocation's m_local_num; a row outside the ledger is an out-of-bounds  *)
(* vector access.                                                          *)
(***************************************************************************)
LedgerInRange(s, localID, local_num) == LedgerRow(localID, local_num) < Len(s.ledger)

threadMemoryLedger(s, address, timestep, localID, local_num) ==
  LET le == [address |-> address, timestep |-> timestep]
      row == LedgerRow(localID, local_num) + 1
  IN [s EXCEPT !.ledger[row] = Append(@, le)]

\* memoryLoad / memoryAtomicLoad, lines 114-120 and 130-136
MemoryLoadState(s, space, address, localID, local_num) ==
  IF space # AddrSpacePrivate
  THEN threadMemoryLedger([s EXCEPT !.loadOps = AddTo(@, address, 1)],
                          address, 0, localID, local_num)
  ELSE s

\* memoryStore / memoryAtomicStore, lines 122-128 and 138-144
MemoryStoreState(s, space, address, localID, local_num) ==
  IF space # AddrSpacePrivate
  THEN threadMemoryLedger([s EXCEPT !.storeOps = AddTo(@, address, 1)],
                          address, 0, localID, local_num)
  ELSE s

MemoryAtomicLoadIgnored(s, space, address, localID, local_num) == s

\* memoryAtomicLoad / memoryAtomicStore test the address space against 0
MemoryAtomicLoadState(s, space, address, localID, local_num) ==
  IF space # 0
  THEN threadMemoryLedger([s EXCEPT !.loadOps = AddTo(@, address, 1)],
                          address, 0, localID, local_num)
  ELSE s

MemoryAtomicStoreState(s, space, address, localID, local_num) ==
  IF space # 0
  THEN threadMemoryLedger([s EXCEPT !.storeOps = AddTo(@, address, 1)],
                          address, 0, localID, local_num)
  ELSE s

(***************************************************************************)
(* instructionExecuted, lines 146-227, in the order of the source.         *)
(***************************************************************************)
\* The counting part of instructionExecuted with the distance recorded before
\* the memory instruction itself is counted.
CountInstructionBeforeIncrement(s, instruction) ==
  LET s1 == [s EXCEPT !.computeOps = AddTo(@, instruction.opcode, 1)]
  IN IF IsLoadInst(instruction)
     THEN [s1 EXCEPT !.loadInstructionLabels = AddTo(@, instruction.pointerName, 1),
                     !.instructionsBetweenLoadOrStore =
                        Append(@, s1.ops_between_load_or_store),
                     !.ops_between_load_or_store = 0]
     ELSE IF IsStoreInst(instruction)
     THEN [s1 EXCEPT !.storeInstructionLabels = AddTo(@, instruction.pointerName, 1),
                     !.instructionsBetweenLoadOrStore =
                        Append(@, s1.ops_between_load_or_store),
                     !.ops_between_load_or_store = 0]
     ELSE [s1 EXCEPT !.ops_between_load_or_store = @ + 1]

\* lines 150-172: opcode count, labels, instructions between loads and stores
CountInstruction(s, instruction) ==
  LET s1 == [s EXCEPT !.computeOps = AddTo(@, instruction.opcode, 1),
                      !.ops_between_load_or_store = @ + 1]
  IN IF IsLoadInst(instruction)
     THEN [s1 EXCEPT !.loadInstructionLabels = AddTo(@, instruction.pointerName, 1),
                     !.instructionsBetweenLoadOrStore =
                        Append(@, s1.ops_between_load_or_store),
                     !.ops_between_load_or_store = 0]
     ELSE IF IsStoreInst(instruction)
     THEN [s1 EXCEPT !.storeInstructionLabels = AddTo(@, instruction.pointerName, 1),
                     !.instructionsBetweenLoadOrStore =
                        Append(@, s1.ops_between_load_or_store),
                     !.ops_between_load_or_store = 0]
     ELSE s1

\* lines 173-192: the address space of a load or store
CountAddressSpace(s, instruction) ==
  IF ~(IsLoadInst(instruction) \/ IsStoreInst(instruction)) THEN s
  ELSE IF instruction.addressSpace = AddrSpaceLocal
  THEN [s EXCEPT !.local_memory_access_count = @ + 1]
  ELSE IF instruction.addressSpace = AddrSpaceGlobal
  THEN [s EXCEPT !.global_memory_access_count = @ + 1]
  ELSE IF instruction.addressSpace = AddrSpaceConstant
  THEN [s EXCEPT !.constant_memory_access_count = @ + 1]
  ELSE s

\* line 202-206: the armed branch went to neither target
BranchUnresolvable(s, instruction) ==
  /\ s.previous_instruction_is_branch
  /\ instruction.parent # s.target1
  /\ instruction.parent # s.target2

PushBack(map, k, v) == Put(map, k, Append(IF k \in DOMAIN map THEN map[k] ELSE <<>>, v))

ResolveBranchElseNotTaken(s, instruction) ==
  IF ~s.previous_instruction_is_branch THEN s
  ELSE [s EXCEPT !.branchOps = PushBack(@, s.branch_loc, instruction.parent = s.target1),
                 !.previous_instruction_is_branch = FALSE]

\* lines 195-208: resolve the branch armed by the previous instruction
ResolveBranch(s, instruction) ==
  IF ~s.previous_instruction_is_branch THEN s
  ELSE LET bb == instruction.parent
           s1 == IF bb = s.target1
                 THEN [s EXCEPT !.branchOps = PushBack(@, s.branch_loc, TRUE)]
                 ELSE IF bb = s.target2
                 THEN [s EXCEPT !.branchOps = PushBack(@, s.branch_loc, FALSE)]
                 ELSE s
       IN [s1 EXCEPT !.previous_instruction_is_branch = FALSE]

IsConditionalBranch(instruction) ==
  /\ instruction.opcode = "Br"
  /\ Len(instruction.operands) = 3
  /\ instruction.operands[2].isLabelTy
  /\ instruction.operands[3].isLabelTy

\* lines 210-217: arm the worker for a conditional branch
ArmBranch(s, instruction) ==
  IF IsConditionalBranch(instruction)
  THEN [s EXCEPT !.previous_instruction_is_branch = TRUE,
                 !.target1 = instruction.operands[2].bb,
                 !.target2 = instruction.operands[3].bb,
                 !.branch_loc = instruction.handle]
  ELSE s

\* lines 219-224: instruction counters and the SIMD width of the result
CountWidth(s, result) ==
  [s EXCEPT !.instruction_count = @ + 1,
            !.workitem_instruction_count = @ + 1,
            !.instructionWidth = AddTo(@, result.num, 1)]

InstructionExecutedArmFirst(s, instruction, result) ==
  CountWidth(
    ResolveBranch(
      ArmBranch(
        CountAddressSpace(CountInstruction(s, instruction), instruction),
        instruction),
      instruction),
    result)

InstructionExecutedState(s, instruction, result) ==
  CountWidth(
    ArmBranch(
      ResolveBranch(
        CountAddressSpace(CountInstruction(s, instruction), instruction),
        instruction),
      instruction),
    result)

(***************************************************************************)
(* Work-item and barrier handlers, lines 229-265.                          *)
(***************************************************************************)
\* workItemBarrier without the barriers_hit increment.
WorkItemBarrierUncounted(s) ==
  [s EXCEPT !.instructionsBetweenBarriers = Append(@, s.instruction_count),
            !.instruction_count = 0]

WorkItemBarrierState(s) ==
  [s EXCEPT !.barriers_hit = @ + 1,
            !.instructionsBetweenBarriers = Append(@, s.instruction_count),
            !.instruction_count = 0]

\* lines 238-244 and 816-823: the PSL of the ledger, the longest row, rows cleared
RecordPSL(s) ==
  LET psl == parallelSpatialLocality(s.ledger)
      maxLength == MaxRowLength(s.ledger)
  IN [s EXCEPT !.ledger = ClearRows(s.ledger),
               !.psl_per_barrier = Append(@, [psl |-> psl, maxLength |-> maxLength])]

WorkGroupBarrierState(s) == RecordPSL(s)

WorkItemClearBarrierState(s) == [s EXCEPT !.instruction_count = 0]

WorkItemBeginState(s) ==
  [s EXCEPT !.threads_invoked = @ + 1,
            !.instruction_count = 0,
            !.workitem_instruction_count = 0,
            !.ops_between_load_or_store = 0]

WorkItemCompleteNoPerWorkitem(s) ==
  [s EXCEPT !.instructionsBetweenBarriers = Append(@, s.instruction_count)]

WorkItemCompleteState(s) ==
  [s EXCEPT !.instructionsBetweenBarriers = Append(@, s.instruction_count),
            !.instructionsPerWorkitem = Append(@, s.workitem_instruction_count)]

(***************************************************************************)
(* The invocation aggregate: the m_* members that kernelBegin clears.      *)
(***************************************************************************)
EmptyAggregate ==
  [m_storeOps |-> EmptyMap, m_loadOps |-> EmptyMap, m_computeOps |-> EmptyMap,
   m_branchPatterns |-> EmptyMap, m_branchCounts |-> EmptyMap,
   m_instructionsToBarrier |-> <<>>, m_instructionWidth |-> EmptyMap,
   m_instructionsPerWorkitem |-> <<>>, m_instructionsBetweenLoadOrStore |-> <<>>,
   m_loadInstructionLabels |-> EmptyMap, m_storeInstructionLabels |-> EmptyMap,
   m_threads_invoked |-> 0, m_barriers_hit |-> 0,
   m_global_memory_access |-> 0, m_local_memory_access |-> 0,
   m_constant_memory_access |-> 0, m_psl_per_group |-> <<>>]

\* lines 279-299 clear every field
KernelBeginAggregate(g) == EmptyAggregate

\* lines 680-690: the fields kernelEnd clears; the others keep their values
KernelEndAggregate(g) ==
  [g EXCEPT !.m_loadOps = EmptyMap, !.m_storeOps = EmptyMap, !.m_computeOps = EmptyMap,
            !.m_branchPatterns = EmptyMap, !.m_branchCounts = EmptyMap,
            !.m_instructionsToBarrier = <<>>, !.m_instructionsPerWorkitem = <<>>,
            !.m_threads_invoked = 0, !.m_instructionsBetweenLoadOrStore = <<>>,
            !.m_loadInstructionLabels = EmptyMap, !.m_storeInstructionLabels = EmptyMap]

(***************************************************************************)
(* workGroupComplete, lines 744-840.                                       *)
(***************************************************************************)
\* for (item : local) global[item.first] = item.second
MergeMapOverwrite(global, local) ==
  [k \in (DOMAIN global) \cup (DOMAIN local) |->
     IF k \in DOMAIN local THEN local[k] ELSE global[k]]

\* for (item : local) global[item.first] += item.second
MergeMap(global, local) ==
  [k \in (DOMAIN global) \cup (DOMAIN local) |-> Get(global, k) + Get(local, k)]

RECURSIVE PatternLoopEveryOutcome(_, _, _, _)
PatternLoopEveryOutcome(outcomes, i, current_pattern, patterns) ==
  IF i >= Len(outcomes) THEN patterns
  ELSE LET next == ((current_pattern * 2) % UINT16) + (IF outcomes[i + 1] THEN 1 ELSE 0)
       IN PatternLoopEveryOutcome(outcomes, i + 1, next, AddTo(patterns, next, 1))

RECURSIVE PatternLoopLate(_, _, _, _)
PatternLoopLate(outcomes, i, current_pattern, patterns) ==
  IF i >= Len(outcomes) THEN patterns
  ELSE LET next == ((current_pattern * 2) % UINT16) + (IF outcomes[i + 1] THEN 1 ELSE 0)
       IN PatternLoopLate(outcomes, i + 1, next,
                          IF i >= m THEN AddTo(patterns, next, 1) ELSE patterns)

\* lines 772-781: the rolling 16-bit register over one site's outcomes of one group
RECURSIVE PatternLoop(_, _, _, _)
PatternLoop(outcomes, i, current_pattern, patterns) ==
  IF i >= Len(outcomes) THEN patterns
  ELSE LET b == outcomes[i + 1]
           next == ((current_pattern * 2) % UINT16) + (IF b THEN 1 ELSE 0)
       IN PatternLoop(outcomes, i + 1, next,
                      IF i >= m - 1 THEN AddTo(patterns, next, 1) ELSE patterns)

\* line 764
MergeBranchCounts(counts, branchOps) ==
  [k \in (DOMAIN counts) \cup (DOMAIN branchOps) |->
     Get(counts, k) + (IF k \in DOMAIN branchOps THEN Len(branchOps[k]) ELSE 0)]

MergeBranchPatternsOverWindow(patterns, branchOps) ==
  LET long == {k \in DOMAIN branchOps : ~(Len(branchOps[k]) <= m)}
  IN [k \in (DOMAIN patterns) \cup long |->
        IF k \in long
        THEN PatternLoop(branchOps[k], 0, 0,
                         IF k \in DOMAIN patterns THEN patterns[k] ELSE EmptyMap)
        ELSE patterns[k]]

\* lines 768-781: sites with fewer than m outcomes in this group are skipped
MergeBranchPatterns(patterns, branchOps) ==
  LET long == {k \in DOMAIN branchOps : ~(Len(branchOps[k]) < m)}
  IN [k \in (DOMAIN patterns) \cup long |->
        IF k \in long
        THEN PatternLoop(branchOps[k], 0, 0,
                         IF k \in DOMAIN patterns THEN patterns[k] ELSE EmptyMap)
        ELSE patterns[k]]

\* lines 825-838: the weighted average over psl_per_barrier, kept as its terms
WeightedAveragePSL(psl_per_barrier) ==
  LET maxLength == SumSeq([i \in 1 .. Len(psl_per_barrier) |-> psl_per_barrier[i].maxLength])
  IN [terms |-> psl_per_barrier,
      divisor |-> IF maxLength # 0 THEN maxLength + 1 ELSE 1]

\* lines 748-814: the counts and sequences of worker state s merged into g
MergeCounts(g, s) ==
  [g EXCEPT
     !.m_computeOps = MergeMap(@, s.computeOps),
     !.m_storeOps = MergeMap(@, s.storeOps),
     !.m_loadOps = MergeMap(@, s.loadOps),
     !.m_branchCounts = MergeBranchCounts(@, s.branchOps),
     !.m_branchPatterns = MergeBranchPatterns(@, s.branchOps),
     !.m_threads_invoked = @ + s.threads_invoked,
     !.m_instructionsToBarrier = @ \o s.instructionsBetweenBarriers,
     !.m_barriers_hit = @ + s.barriers_hit,
     !.m_instructionWidth = MergeMap(@, s.instructionWidth),
     !.m_instructionsPerWorkitem = @ \o s.instructionsPerWorkitem,
     !.m_instructionsBetweenLoadOrStore = @ \o s.instructionsBetweenLoadOrStore,
     !.m_loadInstructionLabels = MergeMap(@, s.loadInstructionLabels),
     !.m_storeInstructionLabels = MergeMap(@, s.storeInstructionLabels),
     !.m_constant_memory_access = @ + s.constant_memory_access_count,
     !.m_local_memory_access = @ + s.local_memory_access_count,
     !.m_global_memory_access = @ + s.global_memory_access_count]

\* lines 816-823: the worker's side of workGroupComplete
WorkGroupCompleteState(s) == RecordPSL(s)

\* the aggregate's side of workGroupComplete
WorkGroupCompleteAggregate(g, s) ==
  [MergeCounts(g, s) EXCEPT
     !.m_psl_per_group =
        Append(@, WeightedAveragePSL(WorkGroupCompleteState(s).psl_per_barrier))]

(***************************************************************************)
(* The destructor's rows, lines 51-59 and 83-88.                           *)
(***************************************************************************)
UniqueKeepAll(x) == x

\* std::unique followed by resize: adjacent equal elements collapse to one
RECURSIVE Unique(_)
Unique(x) ==
  IF Len(x) <= 1 THEN x
  ELSE IF x[1] = x[2] THEN Unique(Tail(x))
  ELSE <<x[1]>> \o Unique(Tail(x))

\* std::count
Count(x, item) == Cardinality({i \in 1 .. Len(x) : x[i] = item})

RunLengthAt(x, i) ==
  \* the length of the maximal run of x that starts at position i
  LET stop == {j \in i .. Len(x) : j = Len(x) \/ x[j + 1] # x[i]}
  IN (CHOOSE j \in stop : \A k \in stop : j <= k) - i + 1

SidecarRows(hostToDevice, deviceToHost) ==
  LET h == Unique(hostToDevice)
      d == Unique(deviceToHost)
  IN [i \in 1 .. Len(h) |->
        [metric |-> "transfer: host to device", kernel |-> h[i],
         count |-> Count(hostToDevice, h[i])]]
     \o
     [i \in 1 .. Len(d) |->
        [metric |-> "transfer: device to host", kernel |-> d[i],
         count |-> Count(deviceToHost, d[i])]]

(***************************************************************************)
(* State.                                                                  *)
(***************************************************************************)
VARIABLES
  agg,                  \* the invocation aggregate
  m_local_num,          \* Size3: work-items per group of the invocation
  m_group_num,          \* Size3: work-groups of the invocation
  m_kernelInvocation,   \* the running invocation, or NoInvocation
  m_last_kernel_name,
  m_hostToDeviceCopy,   \* transfer log, host to device
  m_deviceToHostCopy,   \* transfer log, device to host
  m_numberOfHostToDeviceCopiesBeforeKernelNamed,
  m_mtx,                \* the thread holding the mutex, or NoThread
  m_state,              \* thread -> WorkerState
  pc,                   \* thread -> its position
  snap,                 \* thread -> the aggregate values it loaded for its merge
  wi,                   \* thread -> local id -> status of the work-item
  budget,               \* the callbacks made so far, counted against limit; loads and
                        \* stores count the non-Private ones of the running invocation
  limit,                \* the bounds of the run
  environ,              \* the process environment: what getenv returns
  todo,                 \* work-groups of the invocation not yet begun
  files,                \* the names of the files that exist
  report,               \* the last report logMetrics wrote, or NoReport
  sidecar,              \* the sidecar file the destructor wrote, or NoSidecar
  dtor,                 \* the destructor's position and locals
  fault,                \* "none", "ub" (undefined behaviour happened) or "crash"
  merged                \* the worker states merged in this invocation, in order

pluginVars == <<agg, m_local_num, m_group_num, m_kernelInvocation, report>>
transferVars == <<m_last_kernel_name, m_hostToDeviceCopy, m_deviceToHostCopy,
                  m_numberOfHostToDeviceCopiesBeforeKernelNamed>>
dtorVars == <<files, sidecar, dtor>>
threadVars == <<m_state, pc, snap, wi>>
envVars == <<budget, limit, todo, environ>>
vars == <<pluginVars, transferVars, dtorVars, threadVars, envVars, m_mtx, fault, merged>>

Limit(kernels, groups, instr, mem, bar, copies) ==
  [kernels |-> kernels, groups |-> groups, instr |-> instr, mem |-> mem, bar |-> bar,
   copies |-> copies]
NoBudget ==
  [kernels |-> 0, groups |-> 0, instr |-> 0, mem |-> 0, bar |-> 0, copies |-> 0,
   loads |-> 0, stores |-> 0, executed |-> 0, completed |-> 0]
NoEnviron == [result_path |-> NULL, result_dir |-> NULL]
Spend(what) == budget' = [budget EXCEPT ![what] = @ + 1]
Within(what) == budget[what] < limit[what]
NoSnap == [loaded |-> FALSE]
NoInvocation == [name |-> NULL]
NoReport == [kernel_name |-> NULL]
NoSidecar == [written |-> FALSE, rows |-> <<>>]
Alive == [pc |-> "alive", logfile_count |-> 0]

\* the state after the constructor (lines 42-45), before any thread ran a group
InitWith(existing, bounds, env) ==
  /\ agg = EmptyAggregate
  /\ m_local_num = <<0, 0, 0>>
  /\ m_group_num = <<0, 0, 0>>
  /\ m_kernelInvocation = NoInvocation
  /\ m_last_kernel_name = ""
  /\ m_hostToDeviceCopy = <<>>
  /\ m_deviceToHostCopy = <<>>
  /\ m_numberOfHostToDeviceCopiesBeforeKernelNamed = 0
  /\ m_mtx = NoThread
  /\ m_state = [t \in Workers |-> NullState]
  /\ pc = [t \in Workers |-> "idle"]
  /\ snap = [t \in Workers |-> NoSnap]
  /\ wi = [t \in Workers |-> EmptyMap]
  /\ budget = NoBudget
  /\ limit = bounds
  /\ environ = env
  /\ todo = 0
  /\ files = existing
  /\ report = NoReport
  /\ sidecar = NoSidecar
  /\ dtor = Alive
  /\ fault = "none"
  /\ merged = <<>>

Init == InitWith({}, Limit(MaxKernels, MaxGroups, MaxInstr, MaxMem, MaxBarriers, 0), NoEnviron)

\* after a crash nothing runs; after undefined behaviour that did not crash the
\* run goes on
HostIdle == m_kernelInvocation = NoInvocation /\ dtor.pc = "alive" /\ fault # "crash"
KernelRunning == m_kernelInvocation # NoInvocation /\ fault # "crash"

(***************************************************************************)
(* Transfer tracker, lines 93-102.                                         *)
(***************************************************************************)
hostMemoryLoad ==
  /\ HostIdle
  /\ Within("copies")
  /\ Spend("copies")
  /\ m_deviceToHostCopy' = Append(m_deviceToHostCopy, m_last_kernel_name)
  /\ UNCHANGED <<m_last_kernel_name, m_hostToDeviceCopy,
                 m_numberOfHostToDeviceCopiesBeforeKernelNamed>>
  /\ UNCHANGED <<pluginVars, dtorVars, threadVars, limit, todo, environ, m_mtx, fault,
                 merged>>

hostMemoryStore ==
  /\ HostIdle
  /\ Within("copies")
  /\ Spend("copies")
  /\ m_hostToDeviceCopy' = Append(m_hostToDeviceCopy, m_last_kernel_name)
  /\ m_numberOfHostToDeviceCopiesBeforeKernelNamed' =
        m_numberOfHostToDeviceCopiesBeforeKernelNamed + 1
  /\ UNCHANGED <<m_last_kernel_name, m_deviceToHostCopy>>
  /\ UNCHANGED <<pluginVars, dtorVars, threadVars, limit, todo, environ, m_mtx, fault,
                 merged>>

(***************************************************************************)
(* kernelBegin, lines 267-300.                                             *)
(***************************************************************************)
KernelInvocation(name, numGroups, localSize) ==
  [name |-> name, numGroups |-> numGroups, localSize |-> localSize]

RenameAll(list, n, name) == [j \in 1 .. Len(list) |-> name]

\* lines 273-276: the last n entries of the list take the kernel's name
RenameLast(list, n, name) ==
  LET end_of_list == Len(list) - 1
  IN [j \in 1 .. Len(list) |->
        IF \E i \in 0 .. n - 1 : j - 1 = end_of_list - i THEN name ELSE list[j]]

kernelBegin(kernelInvocation) ==
  /\ HostIdle
  /\ Within("kernels")
  /\ budget.groups + Volume(kernelInvocation.numGroups) <= limit.groups
  /\ m_kernelInvocation' = kernelInvocation
  /\ m_last_kernel_name' = kernelInvocation.name
  /\ m_hostToDeviceCopy' =
        RenameLast(m_hostToDeviceCopy, m_numberOfHostToDeviceCopiesBeforeKernelNamed,
                   kernelInvocation.name)
  /\ m_numberOfHostToDeviceCopiesBeforeKernelNamed' = 0
  /\ agg' = KernelBeginAggregate(agg)
  /\ m_group_num' = kernelInvocation.numGroups
  /\ m_local_num' = kernelInvocation.localSize
  /\ todo' = Volume(kernelInvocation.numGroups)
  /\ budget' = [budget EXCEPT !.kernels = @ + 1,
                              !.groups = @ + Volume(kernelInvocation.numGroups),
                              !.loads = 0, !.stores = 0,
                              !.executed = 0, !.completed = 0]
  /\ merged' = <<>>
  /\ UNCHANGED <<m_deviceToHostCopy, report, dtorVars, threadVars, limit, environ, m_mtx,
                 fault>>

(***************************************************************************)
(* kernelEnd, lines 674-691, with logMetrics, lines 362-672.               *)
(***************************************************************************)
\* lines 378-409 and 490: min_element / max_element / [0] of an empty container
LogMetricsDefined(g) ==
  /\ g.m_instructionsToBarrier # <<>>
  /\ g.m_instructionsPerWorkitem # <<>>
  /\ g.m_instructionWidth # EmptyMap
  /\ g.m_psl_per_group # <<>>

Garbage == [kernel_name |-> "?"]

\* the bitwise and of two unsigned numbers
RECURSIVE BitAnd(_, _)
BitAnd(a, b) ==
  IF a = 0 \/ b = 0 THEN 0
  ELSE (a % 2) * (b % 2) + 2 * BitAnd(a \div 2, b \div 2)

\* lines 538-545: the bits set in a pattern, counted by clearing the lowest
RECURSIVE Taken(_, _)
Taken(p, taken) == IF p = 0 THEN taken ELSE Taken(BitAnd(p, p - 1), taken + 1)

\* lines 437-451: local_address_count[0], the accesses counted per address
CombinedHistogram(g) ==
  [a \in (DOMAIN g.m_storeOps) \cup (DOMAIN g.m_loadOps) |->
     Get(g.m_storeOps, a) + Get(g.m_loadOps, a)]

\* lines 453-456: the counts, largest first
RECURSIVE SortedCount(_)
SortedCount(hist) ==
  IF DOMAIN hist = {} THEN <<>>
  ELSE LET a == CHOOSE a \in DOMAIN hist : \A b \in DOMAIN hist : hist[b] <= hist[a]
       IN <<hist[a]>> \o SortedCount([b \in (DOMAIN hist) \ {a} |-> hist[b]])

SignificantAll(memory_access_count) == memory_access_count

\* line 463: (size_t)ceil(memory_access_count * 0.9).  For every count below
\* 2000000 the double product rounds to a value whose ceiling is that of the
\* exact 9n/10.
Significant(memory_access_count) == (9 * memory_access_count + 9) \div 10

\* lines 464-469: sorted_count[unique_memory_addresses] is read without a check
RECURSIVE FootprintLoop(_, _, _, _)
FootprintLoop(sorted_count, significant, access_count, unique_memory_addresses) ==
  IF ~(access_count < significant)
  THEN [value |-> unique_memory_addresses, in_range |-> TRUE]
  ELSE IF unique_memory_addresses >= Len(sorted_count)
  THEN [value |-> unique_memory_addresses, in_range |-> FALSE]
  ELSE FootprintLoop(sorted_count, significant,
                     access_count + sorted_count[unique_memory_addresses + 1],
                     unique_memory_addresses + 1)

\* lines 458-469
Footprint90(g) ==
  LET sorted_count == SortedCount(CombinedHistogram(g))
  IN FootprintLoop(sorted_count, Significant(SumSeq(sorted_count)), 0, 0)

UniqueReadWriteRatioSwapped(g) ==
  [num |-> Cardinality(DOMAIN g.m_storeOps), den |-> Cardinality(DOMAIN g.m_loadOps)]

\* lines 633-634: the quotient of two doubles, kept as its two terms
UniqueReadWriteRatio(g) ==
  [num |-> Cardinality(DOMAIN g.m_loadOps), den |-> Cardinality(DOMAIN g.m_storeOps)]

\* line 583
ReportName(prefix, kernel, logfile_count) ==
  prefix \o "aiwc_" \o kernel \o "_" \o ToString(logfile_count) \o ".csv"

\* lines 580-588: the loop ends at the first name for which no file exists
RECURSIVE ProbeReport(_, _, _, _)
ProbeReport(prefix, kernel, logfile_count, existing) ==
  IF ~(ReportName(prefix, kernel, logfile_count) \in existing)
  THEN ReportName(prefix, kernel, logfile_count)
  ELSE ProbeReport(prefix, kernel, logfile_count + 1, existing)

LogfileNameDirFirst(env, kernel, existing) ==
  IF env.result_dir # NULL THEN ProbeReport(env.result_dir \o "/", kernel, 0, existing)
  ELSE IF env.result_path # NULL THEN env.result_path
  ELSE ProbeReport("", kernel, 0, existing)

\* lines 565-589
LogfileName(env, kernel, existing) ==
  IF env.result_path # NULL THEN env.result_path
  ELSE ProbeReport(IF env.result_dir # NULL THEN env.result_dir \o "/" ELSE "",
                   kernel, 0, existing)

\* lines 569-572: "[AIWC warning] both output path and directory set, using path"
Warning(env) == env.result_path # NULL /\ env.result_dir # NULL

\* the file logMetrics appends to and the rows of the report that the claims
\* settled so far read
Report(g, kernelInvocation, env, existing) ==
  [kernel_name |-> kernelInvocation.name,
   logfile_name |-> LogfileName(env, kernelInvocation.name, existing),
   warning |-> Warning(env),
   work_items |-> g.m_threads_invoked,
   total_barriers_hit |-> g.m_barriers_hit,
   num_memory_accesses |-> SumSeq(SortedCount(CombinedHistogram(g))),
   total_memory_footprint |-> Cardinality(DOMAIN CombinedHistogram(g)),
   unique_reads |-> Cardinality(DOMAIN g.m_storeOps),
   unique_writes |-> Cardinality(DOMAIN g.m_loadOps),
   unique_read_write_ratio |-> UniqueReadWriteRatio(g),
   total_reads |-> SumMap(g.m_loadOps),
   total_writes |-> SumMap(g.m_storeOps),
   memory_footprint_90pc |-> Footprint90(g).value]

\* the report is that of this invocation, NoReport when the file did not open
kernelEnd ==
  /\ KernelRunning
  /\ todo = 0
  /\ \A t \in Workers : pc[t] = "idle"
  /\ IF LogMetricsDefined(agg)
     THEN /\ \E opened \in BOOLEAN :
               /\ report' = IF opened
                            THEN Report(agg, m_kernelInvocation, environ, files)
                            ELSE NoReport
               /\ files' = IF opened
                           THEN files \cup {LogfileName(environ, m_kernelInvocation.name, files)}
                           ELSE files
          /\ fault' = fault
     ELSE /\ fault' \in {"ub", "crash"}
          /\ report' = Garbage
          /\ files' = files
  /\ m_kernelInvocation' = NoInvocation
  /\ agg' = KernelEndAggregate(agg)
  /\ UNCHANGED <<m_local_num, m_group_num, transferVars, sidecar, dtor, threadVars, envVars,
                 m_mtx, merged>>

(***************************************************************************)
(* The callbacks of a worker thread t.  The interpreter runs the           *)
(* work-items of a group on the group's thread one at a time, each until   *)
(* it reaches a barrier or completes; when all are at the barrier it       *)
(* clears them and notifies the group barrier; a conditional branch is     *)
(* followed by the next instruction of the same work-item.                 *)
(***************************************************************************)
StatusIs(t, set) == \A w \in DOMAIN wi[t] : wi[t][w] \in set
Running(t) == {w \in DOMAIN wi[t] : wi[t][w] = "running"}

CanRunAny(t, w) ==
  /\ pc[t] = "run"
  /\ fault # "crash"
  /\ w \in DOMAIN wi[t]
  /\ wi[t][w] \in {"running", "ready"}

CanRun(t, w) ==
  /\ pc[t] = "run"
  /\ fault # "crash"
  /\ w \in DOMAIN wi[t]
  /\ \/ wi[t][w] = "running"
     \/ wi[t][w] = "ready" /\ Running(t) = {}

SetStatus(t, w, status) == wi' = [wi EXCEPT ![t][w] = status]

hostVars == <<pluginVars, transferVars, dtorVars, m_mtx, limit, todo, environ, merged>>

workGroupBegin(t) ==
  /\ KernelRunning
  /\ pc[t] = "idle"
  /\ todo > 0
  /\ m_state' = [m_state EXCEPT ![t] = WorkGroupBeginState(@, m_local_num)]
  /\ pc' = [pc EXCEPT ![t] = "run"]
  /\ wi' = [wi EXCEPT ![t] = [w \in LocalIDs(m_local_num) |-> "new"]]
  /\ todo' = todo - 1
  /\ UNCHANGED <<pluginVars, transferVars, dtorVars, m_mtx, budget, limit, environ,
                 merged, snap, fault>>

workItemBegin(t, w) ==
  /\ pc[t] = "run"
  /\ fault # "crash"
  /\ w \in DOMAIN wi[t]
  /\ wi[t][w] = "new"
  /\ Running(t) = {}
  /\ m_state' = [m_state EXCEPT ![t] = WorkItemBeginState(@)]
  /\ SetStatus(t, w, "running")
  /\ UNCHANGED <<hostVars, pc, snap, budget, fault>>

instructionExecuted(t, w, instruction, result) ==
  /\ CanRun(t, w)
  /\ Within("instr")
  /\ m_state' = [m_state EXCEPT ![t] = InstructionExecutedState(@, instruction, result)]
  /\ SetStatus(t, w, "running")
  /\ budget' = [budget EXCEPT !.instr = @ + 1, !.executed = @ + 1]
     \* line 205: std::raise(SIGINT) ends the process unless a handler returns
  /\ fault' \in IF BranchUnresolvable(m_state[t], instruction)
               THEN {"crash", fault} ELSE {fault}
  /\ UNCHANGED <<hostVars, pc, snap>>

\* one of the four memory callbacks; a ledger row out of range is undefined
MemoryCallback(t, w, next, space, localID, kind) ==
  /\ CanRun(t, w)
  /\ Within("mem")
  /\ IF space = AddrSpacePrivate \/ LedgerInRange(m_state[t], localID, m_local_num)
     THEN /\ m_state' = [m_state EXCEPT ![t] = next]
          /\ fault' = fault
     ELSE /\ m_state' = [m_state EXCEPT ![t] = [next EXCEPT !.ledger = m_state[t].ledger]]
          /\ fault' \in {"ub", "crash"}
  /\ SetStatus(t, w, "running")
  /\ budget' = [budget EXCEPT !.mem = @ + 1,
                              ![kind] = @ + IF space # AddrSpacePrivate THEN 1 ELSE 0]
  /\ UNCHANGED <<hostVars, pc, snap>>

memoryLoad(t, w, space, address) ==
  MemoryCallback(t, w, MemoryLoadState(m_state[t], space, address, w, m_local_num), space, w,
                 "loads")

memoryStore(t, w, space, address) ==
  MemoryCallback(t, w, MemoryStoreState(m_state[t], space, address, w, m_local_num), space,
                 w, "stores")

memoryAtomicLoad(t, w, space, address) ==
  MemoryCallback(t, w, MemoryAtomicLoadState(m_state[t], space, address, w, m_local_num),
                 space, w, "loads")

memoryAtomicStore(t, w, space, address) ==
  MemoryCallback(t, w, MemoryAtomicStoreState(m_state[t], space, address, w, m_local_num),
                 space, w, "stores")

workItemBarrier(t, w) ==
  /\ CanRun(t, w)
  /\ Within("bar")
  /\ ~m_state[t].previous_instruction_is_branch
  /\ StatusIs(t, {"new", "running", "ready", "barrier"})
  /\ m_state' = [m_state EXCEPT ![t] = WorkItemBarrierState(@)]
  /\ SetStatus(t, w, "barrier")
  /\ UNCHANGED <<hostVars, pc, snap, budget, fault>>

workItemClearBarrier(t, w) ==
  /\ pc[t] = "run"
  /\ fault # "crash"
  /\ w \in DOMAIN wi[t]
  /\ wi[t][w] = "barrier"
  /\ StatusIs(t, {"barrier", "cleared"})
  /\ m_state' = [m_state EXCEPT ![t] = WorkItemClearBarrierState(@)]
  /\ SetStatus(t, w, "cleared")
  /\ UNCHANGED <<hostVars, pc, snap, budget, fault>>

workGroupBarrier(t) ==
  /\ pc[t] = "run"
  /\ fault # "crash"
  /\ StatusIs(t, {"cleared"})
  /\ m_state' = [m_state EXCEPT ![t] = WorkGroupBarrierState(@)]
  /\ wi' = [wi EXCEPT ![t] = [w \in DOMAIN wi[t] |-> "ready"]]
  /\ Spend("bar")
  /\ UNCHANGED <<hostVars, pc, snap, fault>>

workItemComplete(t, w) ==
  /\ CanRun(t, w)
  /\ ~m_state[t].previous_instruction_is_branch
  /\ StatusIs(t, {"new", "running", "ready", "done"})
  /\ m_state' = [m_state EXCEPT ![t] = WorkItemCompleteState(@)]
  /\ SetStatus(t, w, "done")
  /\ budget' = [budget EXCEPT !.completed = @ + 1]
  /\ UNCHANGED <<hostVars, pc, snap, fault>>

(***************************************************************************)
(* workGroupComplete of thread t, in the steps other threads can           *)
(* interleave with: the lock_guard's lock (line 746), the loads of the     *)
(* aggregate's members, and the stores of the merged values with the       *)
(* lock_guard's unlock at return.                                          *)
(***************************************************************************)
MutexAvailableNoWait(t) == TRUE

MutexAvailable(t) == m_mtx = NoThread

UnlockKept(t) == t

\* the lock_guard leaves scope at the return of workGroupComplete
Unlock(t) == NoThread

workGroupComplete_lock(t) ==
  /\ pc[t] = "run"
  /\ fault # "crash"
  /\ StatusIs(t, {"done"})
  /\ MutexAvailable(t)
  /\ m_mtx' = t
  /\ pc' = [pc EXCEPT ![t] = "locked"]
  /\ UNCHANGED <<pluginVars, transferVars, dtorVars, envVars, merged,
                 m_state, snap, wi, fault>>

workGroupComplete_load(t) ==
  /\ pc[t] = "locked"
  /\ snap' = [snap EXCEPT ![t] = agg]
  /\ pc' = [pc EXCEPT ![t] = "loaded"]
  /\ UNCHANGED <<hostVars, budget, m_state, wi, fault>>

workGroupComplete_store(t) ==
  /\ pc[t] = "loaded"
  /\ agg' = WorkGroupCompleteAggregate(snap[t], m_state[t])
  /\ m_state' = [m_state EXCEPT ![t] = WorkGroupCompleteState(@)]
  /\ merged' = Append(merged, m_state[t])
  /\ m_mtx' = Unlock(t)
  /\ snap' = [snap EXCEPT ![t] = NoSnap]
  /\ pc' = [pc EXCEPT ![t] = "idle"]
  /\ UNCHANGED <<m_local_num, m_group_num, m_kernelInvocation, report, transferVars,
                 dtorVars, envVars, wi, fault>>

(***************************************************************************)
(* The destructor, lines 47-91: the search for the file name, one          *)
(* iteration of the loop of lines 65-71 a step, then the rows.             *)
(***************************************************************************)
Destructor_begin ==
  /\ HostIdle
  /\ dtor' = [pc |-> "search", logfile_count |-> 0]
  /\ UNCHANGED <<pluginVars, transferVars, files, sidecar, threadVars, envVars, m_mtx,
                 fault, merged>>

\* line 66
SidecarName(logfile_count) == "aiwc_memory_transfers_" \o ToString(logfile_count) \o ".csv"

\* line 67: the loop ends at the first name for which a file exists
Destructor_search ==
  /\ dtor.pc = "search"
  /\ dtor.logfile_count < MaxProbe
  /\ dtor' = IF SidecarName(dtor.logfile_count) \in files
             THEN [dtor EXCEPT !.pc = "open"]
             ELSE [dtor EXCEPT !.logfile_count = @ + 1]
  /\ UNCHANGED <<pluginVars, transferVars, files, sidecar, threadVars, envVars, m_mtx,
                 fault, merged>>

\* lines 73-90: the file is opened (truncated) and the rows written, or the
\* open fails and nothing is written
Destructor_write ==
  /\ dtor.pc = "open"
  /\ \E is_open \in BOOLEAN :
       sidecar' = IF is_open
                  THEN [written |-> TRUE,
                        rows |-> SidecarRows(m_hostToDeviceCopy, m_deviceToHostCopy)]
                  ELSE sidecar
  /\ dtor' = [dtor EXCEPT !.pc = "done"]
  /\ UNCHANGED <<pluginVars, transferVars, files, threadVars, envVars, m_mtx,
                 fault, merged>>

(***************************************************************************)
(* Spec: one interpreter thread runs every work-group, with the whole      *)
(* callback surface.                                                       *)
(***************************************************************************)
GroupCounts == {<<n, 1, 1>> : n \in 1 .. MaxGroups}
Executions ==
  {<<iAdd, 1>>, <<iLoadG, 4>>, <<iStoreL, 1>>, <<iBr1, 1>>, <<iBr2, 1>>, <<iJmp, 1>>,
   <<iRet, 1>>}
MemSpaces == {AddrSpacePrivate, AddrSpaceGlobal}
Addresses == {16}
AllLocalIDs == UNION {LocalIDs(l) : l \in LocalSizes}

WorkerNext(t) ==
  \/ workGroupBegin(t)
  \/ \E w \in AllLocalIDs : workItemBegin(t, w)
  \/ \E w \in AllLocalIDs, e \in Executions : instructionExecuted(t, w, e[1], [num |-> e[2]])
  \/ \E w \in AllLocalIDs, space \in MemSpaces, a \in Addresses : memoryLoad(t, w, space, a)
  \/ \E w \in AllLocalIDs, space \in MemSpaces, a \in Addresses : memoryStore(t, w, space, a)
  \/ \E w \in AllLocalIDs, space \in MemSpaces, a \in Addresses :
        memoryAtomicLoad(t, w, space, a)
  \/ \E w \in AllLocalIDs, space \in MemSpaces, a \in Addresses :
        memoryAtomicStore(t, w, space, a)
  \/ \E w \in AllLocalIDs : workItemBarrier(t, w)
  \/ \E w \in AllLocalIDs : workItemClearBarrier(t, w)
  \/ workGroupBarrier(t)
  \/ \E w \in AllLocalIDs : workItemComplete(t, w)
  \/ workGroupComplete_lock(t)
  \/ workGroupComplete_load(t)
  \/ workGroupComplete_store(t)

Next ==
  \/ \E g \in GroupCounts, l \in LocalSizes : kernelBegin(KernelInvocation("k1", g, l))
  \/ kernelEnd
  \/ WorkerNext(1)

Spec == Init /\ [][Next]_vars

(***************************************************************************)
(* A whole work-group on thread t in one step: workGroupBegin followed by  *)
(* the callbacks of a trace.  Between workGroupBegin and workGroupComplete *)
(* a thread touches only its own m_state, so no other thread can observe   *)
(* the steps in between.                                                   *)
(***************************************************************************)
Callback(op, localID, instruction, num, space, address) ==
  [op |-> op, localID |-> localID, instruction |-> instruction, num |-> num,
   space |-> space, address |-> address]

cBegin(w) == Callback("workItemBegin", w, iAdd, 0, 0, 0)
cComplete(w) == Callback("workItemComplete", w, iAdd, 0, 0, 0)
cBarrier(w) == Callback("workItemBarrier", w, iAdd, 0, 0, 0)
cClearBarrier(w) == Callback("workItemClearBarrier", w, iAdd, 0, 0, 0)
cGroupBarrier == Callback("workGroupBarrier", <<0, 0, 0>>, iAdd, 0, 0, 0)
cExec(w, instruction, num) == Callback("instructionExecuted", w, instruction, num, 0, 0)
cLoad(w, space, address) == Callback("memoryLoad", w, iAdd, 0, space, address)
cStore(w, space, address) == Callback("memoryStore", w, iAdd, 0, space, address)
cAtomicLoad(w, space, address) == Callback("memoryAtomicLoad", w, iAdd, 0, space, address)
cAtomicStore(w, space, address) == Callback("memoryAtomicStore", w, iAdd, 0, space, address)

ApplyCallback(s, c, local_num) ==
  CASE c.op = "workItemBegin" -> WorkItemBeginState(s)
    [] c.op = "workItemComplete" -> WorkItemCompleteState(s)
    [] c.op = "workItemBarrier" -> WorkItemBarrierState(s)
    [] c.op = "workItemClearBarrier" -> WorkItemClearBarrierState(s)
    [] c.op = "workGroupBarrier" -> WorkGroupBarrierState(s)
    [] c.op = "instructionExecuted" ->
         InstructionExecutedState(s, c.instruction, [num |-> c.num])
    [] c.op = "memoryLoad" -> MemoryLoadState(s, c.space, c.address, c.localID, local_num)
    [] c.op = "memoryStore" -> MemoryStoreState(s, c.space, c.address, c.localID, local_num)
    [] c.op = "memoryAtomicLoad" ->
         MemoryAtomicLoadState(s, c.space, c.address, c.localID, local_num)
    [] c.op = "memoryAtomicStore" ->
         MemoryAtomicStoreState(s, c.space, c.address, c.localID, local_num)

LoadCallbacks == {"memoryLoad", "memoryAtomicLoad"}
StoreCallbacks == {"memoryStore", "memoryAtomicStore"}

\* the callbacks of the trace that are of one of the kinds
Occurrences(trace, kinds) == Cardinality({i \in 1 .. Len(trace) : trace[i].op \in kinds})

\* the callbacks of the trace that are of one of the kinds and not to Private memory
Observed(trace, kinds) ==
  Cardinality({i \in 1 .. Len(trace) :
                 trace[i].op \in kinds /\ trace[i].space # AddrSpacePrivate})

RECURSIVE RunTrace(_, _, _)
RunTrace(s, trace, local_num) ==
  IF trace = <<>> THEN s
  ELSE LET next == ApplyCallback(s, Head(trace), local_num)
       IN \* the comparison has the state computed before the next callback runs
          IF next = s THEN RunTrace(s, Tail(trace), local_num)
          ELSE RunTrace(next, Tail(trace), local_num)

runGroup(t, trace) ==
  /\ KernelRunning
  /\ pc[t] = "idle"
  /\ todo > 0
  /\ m_state' = [m_state EXCEPT ![t] =
                   RunTrace(WorkGroupBeginState(@, m_local_num), trace, m_local_num)]
  /\ pc' = [pc EXCEPT ![t] = "run"]
  /\ wi' = [wi EXCEPT ![t] = [w \in LocalIDs(m_local_num) |-> "done"]]
  /\ todo' = todo - 1
  /\ budget' = [budget EXCEPT !.loads = @ + Observed(trace, LoadCallbacks),
                              !.stores = @ + Observed(trace, StoreCallbacks),
                              !.executed = @ + Occurrences(trace, {"instructionExecuted"}),
                              !.completed = @ + Occurrences(trace, {"workItemComplete"})]
  /\ UNCHANGED <<pluginVars, transferVars, dtorVars, m_mtx, limit, environ, merged, snap,
                 fault>>

(***************************************************************************)
(* The instruction stream of one work-item that visits the conditional     *)
(* branch br1 (in block B1, targets B1 and B2) once per outcome: a taken   *)
(* branch is followed by the next instruction of B1; a branch not taken by *)
(* the jump of B2 back to B1.                                              *)
(***************************************************************************)
RECURSIVE BranchStream(_)
BranchStream(outcomes) ==
  IF outcomes = <<>> THEN <<>>
  ELSE (IF Head(outcomes) THEN <<iBr1>> ELSE <<iBr1, iJmp>>) \o BranchStream(Tail(outcomes))

\* the callbacks of a group of one work-item running such a stream
BranchTrace(outcomes) ==
  LET w == <<0, 0, 0>>
      stream == BranchStream(outcomes) \o <<iAdd>>
  IN <<cBegin(w)>> \o [i \in 1 .. Len(stream) |-> cExec(w, stream[i], 1)] \o <<cComplete(w)>>

Alternating(n, first) == [i \in 1 .. n |-> IF i % 2 = 1 THEN first ELSE ~first]
Constantly(n, b) == [i \in 1 .. n |-> b]

\* a group of one work-item that loads address a once and stores it once
MemoryTrace(a) ==
  LET w == <<0, 0, 0>>
  IN <<cBegin(w), cLoad(w, AddrSpaceGlobal, a), cExec(w, iLoadG, 4),
       cBarrier(w), cClearBarrier(w), cGroupBarrier,
       cStore(w, AddrSpaceLocal, a), cExec(w, iStoreL, 1), cComplete(w)>>

AddTrace == <<cBegin(<<0, 0, 0>>), cExec(<<0, 0, 0>>, iAdd, 1), cComplete(<<0, 0, 0>>)>>

(***************************************************************************)
(* SpecMerge: the threads run whole work-groups of one invocation and      *)
(* merge them in any order and interleaving.                               *)
(***************************************************************************)
MergeTraces ==
  {AddTrace, MemoryTrace(16), MemoryTrace(24)}
  \cup {BranchTrace(Alternating(n, TRUE)) : n \in {1, m - 1, m, m + 1}}
  \cup {BranchTrace(Constantly(n, TRUE)) : n \in {m, m + 2}}

InitMerge == InitWith({}, Limit(1, MaxMergeGroups, 0, 0, 0, 0), NoEnviron)

NextMerge ==
  \/ \E g \in 1 .. MaxMergeGroups : kernelBegin(KernelInvocation("k1", <<g, 1, 1>>, <<1, 1, 1>>))
  \/ \E t \in Workers, trace \in MergeTraces : runGroup(t, trace)
  \/ \E t \in Workers : workGroupComplete_lock(t)
  \/ \E t \in Workers : workGroupComplete_load(t)
  \/ \E t \in Workers : workGroupComplete_store(t)
  \/ kernelEnd

SpecMerge == InitMerge /\ [][NextMerge]_vars

(***************************************************************************)
(* SpecTransfer: host copies between kernel invocations of one group each, *)
(* then the destructor, for every set of sidecar files that may exist.     *)
(***************************************************************************)
InitTransfer ==
  \E existing \in SUBSET {SidecarName(n) : n \in 0 .. MaxFiles - 1} :
    InitWith(existing, Limit(MaxTransferKernels, MaxTransferKernels, 0, 0, 0, MaxCopies),
             NoEnviron)

NextTransfer ==
  \/ hostMemoryLoad
  \/ hostMemoryStore
  \/ \E name \in KernelNames : kernelBegin(KernelInvocation(name, <<1, 1, 1>>, <<1, 1, 1>>))
  \/ runGroup(1, AddTrace)
  \/ workGroupComplete_lock(1)
  \/ workGroupComplete_load(1)
  \/ workGroupComplete_store(1)
  \/ kernelEnd
  \/ Destructor_begin
  \/ Destructor_search
  \/ Destructor_write

SpecTransfer == InitTransfer /\ [][NextTransfer]_vars

(***************************************************************************)
(* Properties of the merge (SpecMerge).                                    *)
(***************************************************************************)
Orders(n) == {p \in [1 .. n -> 1 .. n] : \A i, j \in 1 .. n : p[i] = p[j] => i = j}

\* the work-groups merged one after the other into aggregate g
RECURSIVE MergeAll(_, _)
MergeAll(g, groups) ==
  IF groups = <<>> THEN g ELSE MergeAll(MergeCounts(g, Head(groups)), Tail(groups))

CountValued(g) ==
  [compute_ops |-> g.m_computeOps, load_ops |-> g.m_loadOps, store_ops |-> g.m_storeOps,
   instruction_width |-> g.m_instructionWidth,
   load_labels |-> g.m_loadInstructionLabels, store_labels |-> g.m_storeInstructionLabels,
   branch_counts |-> g.m_branchCounts, branch_patterns |-> g.m_branchPatterns,
   threads_invoked |-> g.m_threads_invoked, barriers_hit |-> g.m_barriers_hit,
   constant_memory_access |-> g.m_constant_memory_access,
   local_memory_access |-> g.m_local_memory_access,
   global_memory_access |-> g.m_global_memory_access]

Merging == {t \in Workers : pc[t] \in {"locked", "loaded"}}

\* C1: while an invocation runs, the count-valued state of the aggregate is
\* what merging the work-groups completed so far yields in every order of
\* completion, not only in the order in which they did complete.
C1_MergeOrderIndependent ==
  KernelRunning =>
    \A p \in Orders(Len(merged)) :
      CountValued(agg)
        = CountValued(MergeAll(EmptyAggregate, [i \in 1 .. Len(merged) |-> merged[p[i]]]))

\* three work-groups are merged, two of them with different pattern streams
\* of the same branch site
C1_Witness ==
  /\ KernelRunning
  /\ Merging = {}
  /\ Len(merged) >= 3
  /\ \E i, j \in 1 .. Len(merged) :
       /\ "br1" \in DOMAIN merged[i].branchOps
       /\ "br1" \in DOMAIN merged[j].branchOps
       /\ Len(merged[i].branchOps["br1"]) >= m
       /\ Len(merged[j].branchOps["br1"]) >= m
       /\ merged[i].branchOps["br1"] # merged[j].branchOps["br1"]

MergedSum(Field(_)) == SumSeq([i \in 1 .. Len(merged) |-> Field(merged[i])])

\* C2: at most one thread is inside a merge, that thread holds the mutex,
\* and every counter of the aggregate is the sum of the values of the
\* work-groups merged so far: no increment is lost.
C2_MergesExclusive ==
  /\ Cardinality(Merging) <= 1
  /\ \A t \in Merging : m_mtx = t
  /\ KernelRunning =>
       /\ agg.m_threads_invoked = MergedSum(LAMBDA s : s.threads_invoked)
       /\ agg.m_barriers_hit = MergedSum(LAMBDA s : s.barriers_hit)
       /\ agg.m_global_memory_access = MergedSum(LAMBDA s : s.global_memory_access_count)
       /\ agg.m_local_memory_access = MergedSum(LAMBDA s : s.local_memory_access_count)
       /\ agg.m_constant_memory_access = MergedSum(LAMBDA s : s.constant_memory_access_count)
       /\ \A k \in {"Add", "Load", "Store", "Br"} :
            /\ Get(agg.m_computeOps, k) = MergedSum(LAMBDA s : Get(s.computeOps, k))
       /\ \A a \in {16, 24} :
            /\ Get(agg.m_loadOps, a) = MergedSum(LAMBDA s : Get(s.loadOps, a))
            /\ Get(agg.m_storeOps, a) = MergedSum(LAMBDA s : Get(s.storeOps, a))
       /\ \A n \in {1, 4} :
            Get(agg.m_instructionWidth, n) = MergedSum(LAMBDA s : Get(s.instructionWidth, n))
       /\ \A site \in {"br1", "br2"} :
            Get(agg.m_branchCounts, site)
              = MergedSum(LAMBDA s : IF site \in DOMAIN s.branchOps
                                     THEN Len(s.branchOps[site]) ELSE 0)

\* one thread is between the loads and the stores of its merge while another
\* thread, its work-group finished, waits for the mutex, after an earlier merge
C2_Witness ==
  /\ merged # <<>>
  /\ \E t, u \in Workers :
       /\ t # u
       /\ pc[t] = "loaded"
       /\ pc[u] = "run"
       /\ m_state[u].threads_invoked > 0

PatternsOf(g, site) ==
  IF site \in DOMAIN g.m_branchPatterns THEN SumMap(g.m_branchPatterns[site]) ELSE 0

\* C7: every branch site of the aggregate has counted more outcomes than
\* pattern occurrences: each merged work-group adds all its outcomes to
\* branch_counts and only those from the 16th on to branch_patterns.
C7_CountsExceedPatterns ==
  /\ DOMAIN agg.m_branchPatterns \subseteq DOMAIN agg.m_branchCounts
  /\ \A site \in DOMAIN agg.m_branchCounts :
       agg.m_branchCounts[site] > PatternsOf(agg, site)

\* a site with at least 16 outcomes and recorded patterns, after two merges
C7_Witness ==
  /\ Len(merged) >= 2
  /\ \E site \in DOMAIN agg.m_branchPatterns :
       /\ agg.m_branchCounts[site] >= m
       /\ PatternsOf(agg, site) > 1

\* C7 as stated: equality exactly when the site has at least 16 outcomes
C7_EqualityFromSixteen ==
  \A site \in DOMAIN agg.m_branchCounts :
    /\ agg.m_branchCounts[site] >= PatternsOf(agg, site)
    /\ (agg.m_branchCounts[site] = PatternsOf(agg, site)) <=> (agg.m_branchCounts[site] >= m)

(***************************************************************************)
(* Properties of the mutex and of the transfer tracker (SpecTransfer).     *)
(***************************************************************************)
TransferLogChanged ==
  \/ m_hostToDeviceCopy' # m_hostToDeviceCopy
  \/ m_deviceToHostCopy' # m_deviceToHostCopy

HostStep ==
  \/ TransferLogChanged
  \/ m_kernelInvocation' # m_kernelInvocation
  \/ report' # report

\* C3: the mutex is held exactly while a thread is inside the merge of
\* workGroupComplete, which reads and writes the aggregate under it; the
\* host copies, kernelBegin and kernelEnd with its report run with the
\* mutex free and leave it free.
C3_MutexOnlyInMerge ==
  [][/\ (m_mtx # NoThread) <=> (Merging # {})
     /\ (snap' # snap) => (m_mtx \in Workers /\ pc[m_mtx] \in {"locked", "loaded"})
     /\ (agg' # agg /\ m_kernelInvocation' = m_kernelInvocation) =>
          (m_mtx \in Workers /\ pc[m_mtx] = "loaded" /\ m_mtx' = NoThread)
     /\ HostStep => (m_mtx = NoThread /\ m_mtx' = NoThread)]_vars

\* a merge holds the mutex in an invocation that follows host copies in both
\* directions and the report of an earlier invocation
C3_Witness ==
  /\ m_hostToDeviceCopy # <<>>
  /\ m_deviceToHostCopy # <<>>
  /\ report # NoReport
  /\ m_mtx # NoThread
  /\ merged = <<>>

\* C3 as stated: whatever changes the aggregate, the report or the transfer
\* log does so holding the mutex
C3_MutexEverywhere ==
  [][(agg' # agg \/ HostStep) => (m_mtx # NoThread)]_vars

BeginStep == m_kernelInvocation = NoInvocation /\ m_kernelInvocation' # NoInvocation

\* C8: the counter of unnamed copies grows by one with each append to the
\* host-to-device log and is otherwise unchanged until kernelBegin, so it
\* counts the entries appended since the previous kernelBegin; kernelBegin
\* gives the kernel's name to exactly these entries, leaves the earlier ones
\* and the device-to-host log as they are, records the name and zeroes the
\* counter.
C8_KernelBeginFrame ==
  [][LET n == m_numberOfHostToDeviceCopiesBeforeKernelNamed
         len == Len(m_hostToDeviceCopy)
         name == m_kernelInvocation'.name
     IN IF BeginStep
        THEN /\ n <= len
             /\ Len(m_hostToDeviceCopy') = len
             /\ \A i \in 1 .. len :
                  m_hostToDeviceCopy'[i] = IF i > len - n THEN name ELSE m_hostToDeviceCopy[i]
             /\ m_deviceToHostCopy' = m_deviceToHostCopy
             /\ m_last_kernel_name' = name
             /\ m_numberOfHostToDeviceCopiesBeforeKernelNamed' = 0
        ELSE \/ /\ m_hostToDeviceCopy' = Append(m_hostToDeviceCopy, m_last_kernel_name)
                /\ m_numberOfHostToDeviceCopiesBeforeKernelNamed' = n + 1
             \/ /\ m_hostToDeviceCopy' = m_hostToDeviceCopy
                /\ m_numberOfHostToDeviceCopiesBeforeKernelNamed' = n]_vars

\* a second kernel has begun: the copy made before it carries its name, the
\* copy made before the first kernel keeps the first kernel's name
C8_Witness ==
  /\ KernelRunning
  /\ merged = <<>>
  /\ m_numberOfHostToDeviceCopiesBeforeKernelNamed = 0
  /\ Len(m_hostToDeviceCopy) >= 2
  /\ m_hostToDeviceCopy[Len(m_hostToDeviceCopy)] = m_last_kernel_name
  /\ m_hostToDeviceCopy[1] # m_last_kernel_name
  /\ m_deviceToHostCopy # <<>>

Directions ==
  [metric : {"transfer: host to device"}, log : {m_hostToDeviceCopy}]
  \cup [metric : {"transfer: device to host"}, log : {m_deviceToHostCopy}]

Names(x) == {x[i] : i \in 1 .. Len(x)}

RowsOf(metric) == SelectSeq(sidecar.rows, LAMBDA row : row.metric = metric)

\* the positions at which a maximal run of adjacent equal names starts
RunStarts(x) == {i \in 1 .. Len(x) : i = 1 \/ x[i - 1] # x[i]}

\* the k-th smallest element of a set of numbers
Nth(set, k) == CHOOSE i \in set : Cardinality({j \in set : j <= i}) = k

InSeparateRuns(x) == \E i, j, k \in 1 .. Len(x) : i < j /\ j < k /\ x[i] = x[k] /\ x[j] # x[i]

\* C9: in the sidecar the destructor wrote, each direction has exactly one
\* row for each distinct kernel name of its log, with that kernel's count.
C9_OneRowPerName ==
  sidecar.written =>
    \A d \in Directions :
      \A name \in Names(d.log) :
        \E i \in 1 .. Len(RowsOf(d.metric)) :
          /\ RowsOf(d.metric)[i].kernel = name
          /\ RowsOf(d.metric)[i].count = Count(d.log, name)
          /\ \A j \in 1 .. Len(RowsOf(d.metric)) : RowsOf(d.metric)[j].kernel = name => j = i

\* C10: in the sidecar the destructor wrote, each direction has one row for
\* each maximal run of adjacent equal names of its log, in the order of the
\* runs, and the row's count is the number of occurrences of the name in the
\* whole log of the direction.
C10_RowPerRunTotalCount ==
  sidecar.written =>
    \A d \in Directions :
      /\ Len(RowsOf(d.metric)) = Cardinality(RunStarts(d.log))
      /\ \A k \in 1 .. Len(RowsOf(d.metric)) :
           /\ RowsOf(d.metric)[k].kernel = d.log[Nth(RunStarts(d.log), k)]
           /\ RowsOf(d.metric)[k].count = Count(d.log, RowsOf(d.metric)[k].kernel)

\* the sidecar is written from a log in which a name has two separate runs
C10_Witness ==
  /\ sidecar.written
  /\ \E d \in Directions : InSeparateRuns(d.log)

\* C10 as stated: the row of a run carries the length of the run
C10_RowPerRunRunLength ==
  sidecar.written =>
    \A d \in Directions :
      /\ Len(RowsOf(d.metric)) = Cardinality(RunStarts(d.log))
      /\ \A k \in 1 .. Len(RowsOf(d.metric)) :
           /\ RowsOf(d.metric)[k].kernel = d.log[Nth(RunStarts(d.log), k)]
           /\ RowsOf(d.metric)[k].count = RunLengthAt(d.log, Nth(RunStarts(d.log), k))

(***************************************************************************)
(* Properties of the resets (Spec).                                        *)
(***************************************************************************)
\* thread t has begun a work-group and none of its work-items has started
JustBegun(t) == pc[t] = "run" /\ StatusIs(t, {"new"})

\* C4: right after workGroupBegin every field of the thread's accumulator is
\* empty or zero: maps, sequences, counters, branch state, every ledger row
\* and psl_per_barrier.
C4_AccumulatorFresh ==
  \A t \in Workers :
    JustBegun(t) =>
      m_state[t] = [NullState EXCEPT !.created = TRUE,
                                     !.ledger = ClearRows(m_state[t].ledger)]

\* C5: right after workGroupBegin the ledger has one row for each work-item
\* of a group of the current invocation, so the row of every local id is in
\* range.
C5_LedgerRows ==
  \A t \in Workers :
    JustBegun(t) =>
      /\ Len(m_state[t].ledger) = Volume(m_local_num)
      /\ \A w \in LocalIDs(m_local_num) :
           LedgerRow(w, m_local_num) + 1 \in 1 .. Len(m_state[t].ledger)

\* C6: once kernelEnd has returned every field of the aggregate is empty or
\* zero, as after kernelBegin.
C6_AggregateEmptyAfterEnd ==
  (m_kernelInvocation = NoInvocation /\ fault = "none") => agg = KernelBeginAggregate(agg)

(***************************************************************************)
(* Properties of the sidecar file search (SpecTransfer).                   *)
(***************************************************************************)
\* C11: when the search of the destructor has ended, the name it selected is
\* that of the smallest number for which no file exists, so the file the
\* destructor opens is not an existing one.
C11_SmallestFreeName ==
  dtor.pc \in {"open", "done"} =>
    /\ SidecarName(dtor.logfile_count) \notin files
    /\ \A n \in 0 .. dtor.logfile_count - 1 : SidecarName(n) \in files

(***************************************************************************)
(* SpecReport: invocations of zero or more work-groups, each followed      *)
(* by kernelEnd, for every setting of the two environment variables and    *)
(* every set of report files that may exist.                               *)
(***************************************************************************)
Repeat(c, n) == [i \in 1 .. n |-> c]

\* a group of one work-item that loads address 16 (plainly and atomically),
\* loads Private memory once, and stores to addresses 24 and 32
AccessTrace(loads, atomicLoads, stores, atomicStores) ==
  LET w == <<0, 0, 0>>
  IN <<cBegin(w)>>
     \o Repeat(cLoad(w, AddrSpaceGlobal, 16), loads)
     \o Repeat(cAtomicLoad(w, AddrSpaceGlobal, 16), atomicLoads)
     \o <<cLoad(w, AddrSpacePrivate, 40), cAtomicStore(w, AddrSpacePrivate, 40)>>
     \o Repeat(cStore(w, AddrSpaceLocal, 24), stores)
     \o Repeat(cAtomicStore(w, AddrSpaceGlobal, 32), atomicStores)
     \o <<cExec(w, iLoadG, 4), cComplete(w)>>

\* a group whose only work-item executes one instruction and is then ended by
\* the interpreter: it reaches neither a barrier nor workItemComplete
AbortedTrace == <<cBegin(<<0, 0, 0>>), cExec(<<0, 0, 0>>, iAdd, 1)>>

ReportTraces ==
  {AddTrace, AbortedTrace, MemoryTrace(16)}
  \cup {AccessTrace(l, 1, s, a) : l \in {0, 7}, s \in {0, 1}, a \in {0, 2}}
  \cup {BranchTrace(Alternating(2 * m, first)) : first \in BOOLEAN}

ResultPaths == {NULL, "report.csv"}
ResultDirs == {NULL, "out"}
ReportFiles ==
  {ReportName(prefix, "k1", n) : prefix \in {"", "out/"}, n \in 0 .. MaxReportFiles - 1}

InitReport ==
  \E existing \in SUBSET ReportFiles, result_path \in ResultPaths, result_dir \in ResultDirs :
    InitWith(existing, Limit(MaxReportKernels, MaxReportGroups, 0, 0, 0, 0),
             [result_path |-> result_path, result_dir |-> result_dir])

NextReport ==
  \/ \E g \in 0 .. MaxReportGroups :
        kernelBegin(KernelInvocation("k1", <<g, 1, 1>>, <<1, 1, 1>>))
  \/ \E trace \in ReportTraces : runGroup(1, trace)
  \/ workGroupComplete_lock(1)
  \/ workGroupComplete_load(1)
  \/ workGroupComplete_store(1)
  \/ kernelEnd

SpecReport == InitReport /\ [][NextReport]_vars

(***************************************************************************)
(* Properties of the report (SpecReport).                                  *)
(***************************************************************************)
\* a report is the rows of an invocation whose file was opened
Emitted(r) == r # NoReport /\ r # Garbage

\* this step is a kernelEnd that wrote a report
ReportStep == KernelRunning /\ m_kernelInvocation' = NoInvocation /\ Emitted(report')

\* the directory part of a numbered report name
DirPrefix == IF environ.result_dir = NULL THEN "" ELSE environ.result_dir \o "/"
Numbered(kernel, n) == DirPrefix \o "aiwc_" \o kernel \o "_" \o ToString(n) \o ".csv"

\* C12: the report of an invocation goes to OUTPUT_PATH verbatim whenever it
\* is set, with a warning exactly when OUTPUT_DIR is set too; otherwise to
\* <dir>/aiwc_<kernel>_<n>.csv, or to the same name without directory when
\* OUTPUT_DIR is unset, for the smallest n of which no file existed.
C12_ReportFile ==
  [][ReportStep =>
       /\ report'.logfile_name \in files'
       /\ environ.result_path # NULL =>
            /\ report'.logfile_name = environ.result_path
            /\ report'.warning <=> environ.result_dir # NULL
       /\ environ.result_path = NULL =>
            /\ ~report'.warning
            /\ \E n \in 0 .. Cardinality(files) :
                 /\ report'.logfile_name = Numbered(m_kernelInvocation.name, n)
                 /\ Numbered(m_kernelInvocation.name, n) \notin files
                 /\ \A k \in 0 .. n - 1 : Numbered(m_kernelInvocation.name, k) \in files]_vars

\* with only OUTPUT_DIR set and number 0 taken, the report went to number 1
C12_Witness ==
  /\ Emitted(report)
  /\ environ.result_path = NULL
  /\ environ.result_dir = "out"
  /\ report.logfile_name = "out/aiwc_k1_1.csv"

\* C13: in the report of every invocation total_reads is the sum of the
\* aggregate's load counts and total_writes the sum of its store counts; these
\* are the numbers of load and of store callbacks, atomic or not, to memory
\* other than Private in the work-groups of the invocation, all of them merged
\* by then; and num_memory_accesses is total_reads + total_writes.
C13_ReadWriteTotals ==
  [][ReportStep =>
       /\ report'.total_reads = SumMap(agg.m_loadOps)
       /\ report'.total_writes = SumMap(agg.m_storeOps)
       /\ report'.total_reads = budget.loads
       /\ report'.total_writes = budget.stores
       /\ report'.num_memory_accesses = report'.total_reads + report'.total_writes]_vars

\* the report of two merged groups with plain and atomic accesses and accesses
\* to Private memory: 9 loads and 4 stores were counted
C13_Witness ==
  /\ m_kernelInvocation = NoInvocation
  /\ Emitted(report)
  /\ Len(merged) = 2
  /\ report.total_reads = 9
  /\ report.total_writes = 4
  /\ budget.loads = 9

\* the sum of the k largest counts
TopCounts(sorted_count, k) == SumSeq(SubSeq(sorted_count, 1, k))

\* C14: for the combined histogram of every reported invocation the loop that
\* computes memory_footprint_90pc ends without reading past the sorted counts,
\* at the smallest k whose k largest counts sum to at least nine tenths of
\* memory_access_count (rounded up); so memory_footprint_90pc is at most
\* total_memory_footprint, and it is 0 when there was no access.
C14_Footprint90 ==
  [][ReportStep =>
       LET sorted_count == SortedCount(CombinedHistogram(agg))
           memory_access_count == SumSeq(sorted_count)
           k == report'.memory_footprint_90pc
       IN /\ Footprint90(agg).in_range
          /\ k = Footprint90(agg).value
          /\ k \in 0 .. Len(sorted_count)
          /\ \A i \in 1 .. Len(sorted_count) - 1 : sorted_count[i] >= sorted_count[i + 1]
          /\ 10 * TopCounts(sorted_count, k) >= 9 * memory_access_count
          /\ \A j \in 0 .. k - 1 : 10 * TopCounts(sorted_count, j) < 9 * memory_access_count
          /\ k <= report'.total_memory_footprint
          /\ memory_access_count = 0 => k = 0]_vars

\* a report of three addresses of which the two most accessed cover nine
\* tenths of the accesses
C14_Witness ==
  /\ m_kernelInvocation = NoInvocation
  /\ Emitted(report)
  /\ report.total_memory_footprint = 3
  /\ report.memory_footprint_90pc = 2

\* the quotient r of two doubles equals a / b: equal as fractions, or both
\* infinite, or both not a number
RatioIs(r, a, b) ==
  IF r.den # 0 /\ b # 0 THEN r.num * b = a * r.den
  ELSE r.den = 0 /\ b = 0 /\ (r.num = 0 <=> a = 0)

\* C15: in every report unique_reads is the number of distinct store addresses
\* and unique_writes the number of distinct load addresses, and
\* unique_read_write_ratio is the number of distinct load addresses divided by
\* the number of distinct store addresses, that is the emitted unique_writes
\* divided by the emitted unique_reads.
C15_UniqueSwapped ==
  [][ReportStep =>
       /\ report'.unique_reads = Cardinality(DOMAIN agg.m_storeOps)
       /\ report'.unique_writes = Cardinality(DOMAIN agg.m_loadOps)
       /\ RatioIs(report'.unique_read_write_ratio,
                  report'.unique_writes, report'.unique_reads)]_vars

\* a report of an invocation that loaded one address and stored to two
C15_Witness ==
  /\ m_kernelInvocation = NoInvocation
  /\ Emitted(report)
  /\ report.unique_reads = 2
  /\ report.unique_writes = 1
  /\ report.unique_read_write_ratio = [num |-> 1, den |-> 2]

\* C15 as stated: the ratio is the emitted unique_reads divided by the emitted
\* unique_writes
C15_RatioOfEmitted ==
  [][ReportStep =>
       /\ report'.unique_reads = Cardinality(DOMAIN agg.m_storeOps)
       /\ report'.unique_writes = Cardinality(DOMAIN agg.m_loadOps)
       /\ RatioIs(report'.unique_read_write_ratio,
                  report'.unique_reads, report'.unique_writes)]_vars

\* this step is the kernelEnd of an invocation
EndStep == KernelRunning /\ m_kernelInvocation' = NoInvocation

\* C16: the kernelEnd of an invocation of which no work-item completed (also
\* when no work-group was merged at all) has a defined outcome: it takes no
\* minimum, maximum or median of an empty sequence and does not read the first
\* element of an empty psl_per_group.
C16_DefinedWithoutWorkItems ==
  [][(EndStep /\ agg.m_instructionsPerWorkitem = <<>>) =>
       (LogMetricsDefined(agg) /\ fault' = fault /\ report' # Garbage)]_vars

\* C17: at kernelEnd instruction_width is non-empty whenever an instruction
\* was executed in the invocation, and instructions_between_barriers and
\* instructions_per_workitem are non-empty whenever a work-item of the
\* invocation completed; instructions_per_workitem has one entry for each
\* completed work-item, so a work-item that was ended before it completed
\* adds to instruction_width only.
C17_NonEmptyWhenCompleted ==
  [][EndStep =>
       /\ budget.executed > 0 => agg.m_instructionWidth # EmptyMap
       /\ budget.completed > 0 => /\ agg.m_instructionsToBarrier # <<>>
                                  /\ agg.m_instructionsPerWorkitem # <<>>
       /\ Len(agg.m_instructionsPerWorkitem) = budget.completed
       /\ Len(agg.m_instructionsToBarrier) >= budget.completed]_vars

\* the invocation ran a group whose work-item completed and a group whose
\* work-item was ended after its first instruction
C17_Witness ==
  /\ KernelRunning
  /\ todo = 0
  /\ Len(merged) = 2
  /\ budget.executed = 2
  /\ budget.completed = 1
  /\ Len(agg.m_instructionsPerWorkitem) = 1

\* C17 as stated: the three are non-empty whenever an instruction was executed
C17_NonEmptyWhenExecuted ==
  [][(EndStep /\ budget.executed > 0) =>
       /\ agg.m_instructionsToBarrier # <<>>
       /\ agg.m_instructionsPerWorkitem # <<>>
       /\ agg.m_instructionWidth # EmptyMap]_vars

(***************************************************************************)
(* Properties of the branch history (SpecReport, Spec).                    *)
(***************************************************************************)
StrictlyAlternating(outcomes) ==
  \A j \in 1 .. Len(outcomes) - 1 : outcomes[j] # outcomes[j + 1]

\* the outcomes of a site in merged group i are 2m strictly alternating values
AlternatingSite(i, site) ==
  /\ site \in DOMAIN merged[i].branchOps
  /\ Len(merged[i].branchOps[site]) = 2 * m
  /\ StrictlyAlternating(merged[i].branchOps[site])

\* the patterns that the merge of group i alone records for a site
Recorded(i, site) == MergeBranchPatterns(EmptyMap, merged[i].branchOps)[site]

\* C18: for a site whose outcomes in one work-group are 32 strictly
\* alternating values the merge records m + 1 = 17 windows, which are two
\* distinct 16-bit patterns (1010...10 and 0101...01), each with 8 bits set;
\* both are in the aggregate.
C18_AlternatingTwoPatterns ==
  \A i \in 1 .. Len(merged) : \A site \in DOMAIN merged[i].branchOps :
    AlternatingSite(i, site) =>
      /\ DOMAIN Recorded(i, site) = {43690, 21845}
      /\ \A p \in DOMAIN Recorded(i, site) : Taken(p, 0) = m \div 2
      /\ SumMap(Recorded(i, site)) = m + 1
      /\ KernelRunning => DOMAIN Recorded(i, site) \subseteq DOMAIN agg.m_branchPatterns[site]

\* a merged group in which a site has 32 alternating outcomes
C18_Witness ==
  /\ KernelRunning
  /\ \E i \in 1 .. Len(merged) : \E site \in DOMAIN merged[i].branchOps :
       /\ AlternatingSite(i, site)
       /\ Cardinality(DOMAIN agg.m_branchPatterns[site]) = 2

\* C18 as stated: exactly one distinct pattern is recorded, with 8 bits set
C18_AlternatingOnePattern ==
  \A i \in 1 .. Len(merged) : \A site \in DOMAIN merged[i].branchOps :
    AlternatingSite(i, site) =>
      /\ Cardinality(DOMAIN Recorded(i, site)) = 1
      /\ \A p \in DOMAIN Recorded(i, site) : Taken(p, 0) = m \div 2

\* the outcomes recorded for a site in worker state s
OutcomesOf(s, site) == IF site \in DOMAIN s.branchOps THEN s.branchOps[site] ELSE <<>>

\* worker state s is armed by a conditional branch
Armed(s) == s.previous_instruction_is_branch

\* C19: on every worker, a conditional branch (Br with three operands of
\* which 1 and 2 are labels) arms the worker for its site and targets, and the
\* next instructionExecuted on the worker, whatever the instruction, resolves
\* it: if the instruction's block is target1 it appends true to the outcomes
\* of the armed site, otherwise if it is target2 it appends false, and nothing
\* else is appended; the flag is cleared, and only then the worker is armed
\* again if the instruction is itself a conditional branch, for the new site.
C19_ResolvedByNextInstruction ==
  \A t \in Workers : pc[t] = "run" =>
    \A branch \in {i \in Instructions : IsConditionalBranch(i)}, instruction \in Instructions :
      LET s == InstructionExecutedState(m_state[t], branch, [num |-> 1])
          next == InstructionExecutedState(s, instruction, [num |-> 1])
      IN /\ Armed(s)
         /\ s.branch_loc = branch.handle
         /\ s.target1 = branch.operands[2].bb
         /\ s.target2 = branch.operands[3].bb
         /\ instruction.parent = s.target1 =>
              OutcomesOf(next, s.branch_loc) = Append(OutcomesOf(s, s.branch_loc), TRUE)
         /\ (instruction.parent # s.target1 /\ instruction.parent = s.target2) =>
              OutcomesOf(next, s.branch_loc) = Append(OutcomesOf(s, s.branch_loc), FALSE)
         /\ \A site \in (DOMAIN next.branchOps) \ {s.branch_loc} :
              OutcomesOf(next, site) = OutcomesOf(s, site)
         /\ Armed(next) <=> IsConditionalBranch(instruction)
         /\ IsConditionalBranch(instruction) => next.branch_loc = instruction.handle

\* the branch br1 was resolved as not taken by the conditional branch br2 of
\* its second target, which armed the worker again
C19_Witness ==
  \E t \in Workers :
    /\ pc[t] = "run"
    /\ Armed(m_state[t])
    /\ m_state[t].branch_loc = "br2"
    /\ OutcomesOf(m_state[t], "br1") = <<FALSE>>

Unresolving(s) == {i \in Instructions : BranchUnresolvable(s, i)}

\* C21: when a worker is armed and the block of the next instruction is
\* neither target1 nor target2, the callback appends no outcome to any site,
\* clears the flag (the worker is armed afterwards only if the instruction is
\* itself a conditional branch) and counts the instruction in
\* instruction_count, workitem_instruction_count and instruction_width; an
\* instructionExecuted raises the interrupt signal, which may end the run, in
\* this case only.
C21_UnresolvableBranch ==
  [][\A t \in Workers : (pc[t] = "run" /\ Armed(m_state[t])) =>
       /\ \A instruction \in Unresolving(m_state[t]) :
            LET s == m_state[t]
                next == InstructionExecutedState(s, instruction, [num |-> 1])
            IN /\ next.branchOps = s.branchOps
               /\ Armed(next) <=> IsConditionalBranch(instruction)
               /\ next.instruction_count = s.instruction_count + 1
               /\ next.workitem_instruction_count = s.workitem_instruction_count + 1
               /\ SumMap(next.instructionWidth) = SumMap(s.instructionWidth) + 1
       /\ (fault # "crash" /\ fault' = "crash" /\ budget'.executed = budget.executed + 1) =>
            \E instruction \in Unresolving(m_state[t]) :
              m_state'[t] = InstructionExecutedState(m_state[t], instruction, [num |-> 1])]_vars

\* after the conditional branch br1 an instruction of a third block was
\* executed and the run went on: no outcome, flag cleared, both counted
C21_Witness ==
  \E t \in Workers :
    /\ pc[t] = "run"
    /\ fault = "none"
    /\ ~Armed(m_state[t])
    /\ Get(m_state[t].computeOps, "Br") = 1
    /\ Get(m_state[t].computeOps, "Ret") = 1
    /\ m_state[t].branch_loc = "br1"
    /\ OutcomesOf(m_state[t], "br1") = <<>>
    /\ m_state[t].workitem_instruction_count = 2

\* this step is a memory callback on worker t
MemoryStep(t) == pc[t] = "run" /\ budget'.mem = budget.mem + 1

\* the worker state of t after one more access of work-item w to address a,
\* counted in loadOps or storeOps and entered in the ledger row of w
Accessed(t, w, a, ops) ==
  [m_state[t] EXCEPT ![ops] = AddTo(@, a, 1),
                     !.ledger[LedgerRow(w, m_local_num) + 1] =
                        Append(@, [address |-> a, timestep |-> 0])]

\* C22: a memory callback (load or store, atomic or not) on Private memory
\* leaves the worker's accumulator unchanged; on any other address space it
\* adds one to the count of the address in loadOps or storeOps and appends
\* the one element (address, timestep 0) to the ledger row of the calling
\* work-item, which exists; everything else is unchanged.
C22_MemoryCallbackFrame ==
  [][\A t \in Workers : MemoryStep(t) =>
       /\ fault' = fault
       /\ (budget'.loads = budget.loads /\ budget'.stores = budget.stores) =>
            m_state'[t] = m_state[t]
       /\ budget'.loads = budget.loads + 1 =>
            \E w \in Running(t)', a \in Addresses :
              /\ LedgerRow(w, m_local_num) + 1 \in 1 .. Len(m_state[t].ledger)
              /\ m_state'[t] = Accessed(t, w, a, "loadOps")
       /\ budget'.stores = budget.stores + 1 =>
            \E w \in Running(t)', a \in Addresses :
              /\ LedgerRow(w, m_local_num) + 1 \in 1 .. Len(m_state[t].ledger)
              /\ m_state'[t] = Accessed(t, w, a, "storeOps")]_vars

(***************************************************************************)
(* Properties of the merge of one group (SpecMerge).                       *)
(***************************************************************************)
\* the 16-bit word of outcomes j-15 .. j, the most recent in the lowest bit
Word(outcomes, j) ==
  SumSeq([k \in 1 .. m |-> IF outcomes[j - k + 1] THEN 2 ^ (k - 1) ELSE 0])

\* the windows of a sequence of outcomes that are the word p
Windows(outcomes, p) == {j \in m .. Len(outcomes) : Word(outcomes, j) = p}

\* the occurrences of word p at a site in the groups merged so far
RECURSIVE WindowsMerged(_, _, _)
WindowsMerged(n, site, p) ==
  IF n = 0 THEN 0
  ELSE WindowsMerged(n - 1, site, p)
       + Cardinality(Windows(OutcomesOf(merged[n], site), p))

RECURSIVE OutcomesMerged(_, _)
OutcomesMerged(n, site) ==
  IF n = 0 THEN 0 ELSE OutcomesMerged(n - 1, site) + Len(OutcomesOf(merged[n], site))

\* C23: for a site with L outcomes in a merged group the merge adds L to
\* branch_counts; if L < 16 it adds nothing to branch_patterns, and if
\* L >= 16 it records L - 15 occurrences, one for each j in 16 .. L, of the
\* word made of outcomes j-15 .. j with the most recent outcome in the lowest
\* bit.  The register starts at 0 in every group: the aggregate holds the
\* windows of each group's own sequence and none across two groups.
C23_PatternWindows ==
  /\ \A i \in 1 .. Len(merged) : \A site \in DOMAIN merged[i].branchOps :
       LET outcomes == merged[i].branchOps[site]
           L == Len(outcomes)
           counts == MergeBranchCounts(EmptyMap, merged[i].branchOps)
           patterns == MergeBranchPatterns(EmptyMap, merged[i].branchOps)
       IN /\ counts[site] = L
          /\ L < m => site \notin DOMAIN patterns
          /\ L >= m =>
               /\ site \in DOMAIN patterns
               /\ SumMap(patterns[site]) = L - (m - 1)
               /\ DOMAIN patterns[site] = {Word(outcomes, j) : j \in m .. L}
               /\ \A p \in DOMAIN patterns[site] :
                    patterns[site][p] = Cardinality(Windows(outcomes, p))
  /\ KernelRunning =>
       /\ \A site \in DOMAIN agg.m_branchCounts :
            agg.m_branchCounts[site] = OutcomesMerged(Len(merged), site)
       /\ \A site \in DOMAIN agg.m_branchPatterns : \A p \in DOMAIN agg.m_branchPatterns[site] :
            agg.m_branchPatterns[site][p] = WindowsMerged(Len(merged), site, p)

\* the aggregate after the merge of a group with 15 outcomes at br1, a group
\* with 17 and a group with 18: 50 outcomes counted and 5 windows recorded
C23_Witness ==
  /\ KernelRunning
  /\ {Len(OutcomesOf(merged[i], "br1")) : i \in 1 .. Len(merged)} = {m - 1, m + 1, m + 2}
  /\ Get(agg.m_branchCounts, "br1") = 3 * m + 2
  /\ PatternsOf(agg, "br1") = 5

\* the workGroupBarrier callbacks of merged group i: each of its work-items
\* hit every barrier of the group
GroupBarriers(i) == merged[i].barriers_hit \div Volume(m_local_num)

\* C24: the entry that the merge of a group appends to psl_per_group is the
\* weighted average over the PSL records of that group alone: one for each
\* workGroupBarrier of the group and one for its residual ledger, with the
\* sum of their row lengths as sum_len; records of groups that the thread ran
\* before are not among its terms.
C24_OwnRecordsOnly ==
  KernelRunning =>
    /\ Len(agg.m_psl_per_group) = Len(merged)
    /\ \A i \in 1 .. Len(merged) :
         LET average == agg.m_psl_per_group[i]
             sum_len == SumSeq([k \in 1 .. Len(average.terms) |-> average.terms[k].maxLength])
         IN /\ Len(average.terms) = GroupBarriers(i) + 1
            /\ average.divisor = IF sum_len # 0 THEN sum_len + 1 ELSE 1

\* C25: each value appended to instructions_per_workitem is the number of
\* instructions the completing work-item executed since its begin; so once
\* every work-item of a group has completed, the values add up to the
\* instructions executed in the group and each value is at most that number.
C25_PerWorkItemCount ==
  \A t \in Workers :
    (pc[t] = "run" /\ StatusIs(t, {"done"})) =>
      /\ Len(m_state[t].instructionsPerWorkitem) = Cardinality(DOMAIN wi[t])
      /\ SumSeq(m_state[t].instructionsPerWorkitem) = SumMap(m_state[t].computeOps)


\* C26: in every per-worker accumulator, and in the aggregate while a kernel
\* invocation is being recorded (the state the report is built from), the
\* length of instructions_between_barriers equals barriers_hit plus the length
\* of instructions_per_workitem, and threads_invoked is at least the length of
\* instructions_per_workitem.
C26_BarrierBookkeeping ==
  /\ \A t \in Workers :
       /\ Len(m_state[t].instructionsBetweenBarriers)
            = m_state[t].barriers_hit + Len(m_state[t].instructionsPerWorkitem)
       /\ m_state[t].threads_invoked >= Len(m_state[t].instructionsPerWorkitem)
  /\ KernelRunning =>
       /\ Len(agg.m_instructionsToBarrier)
            = agg.m_barriers_hit + Len(agg.m_instructionsPerWorkitem)
       /\ agg.m_threads_invoked >= Len(agg.m_instructionsPerWorkitem)

\* A kernel invocation whose aggregate holds a merged group in which a
\* work-item hit a barrier and completed.
C26_Witness ==
  /\ KernelRunning
  /\ fault = "none"
  /\ agg.m_barriers_hit >= 1
  /\ Len(agg.m_instructionsPerWorkitem) >= 1
  /\ Len(agg.m_instructionsToBarrier) >= 2

\* C27: in every per-worker accumulator, and in the aggregate while a kernel
\* invocation is being recorded, the length of instructions_between_load_or_store
\* equals the sum of the load_labels counts plus the sum of the store_labels
\* counts, every entry of that sequence is at least 1, and the sum of the
\* compute_ops counts equals the sum of the instruction_width counts.
C27_LoadStoreBookkeeping ==
  /\ \A t \in Workers :
       /\ Len(m_state[t].instructionsBetweenLoadOrStore)
            = SumMap(m_state[t].loadInstructionLabels)
                + SumMap(m_state[t].storeInstructionLabels)
       /\ \A i \in DOMAIN m_state[t].instructionsBetweenLoadOrStore :
            m_state[t].instructionsBetweenLoadOrStore[i] >= 1
       /\ SumMap(m_state[t].computeOps) = SumMap(m_state[t].instructionWidth)
  /\ KernelRunning =>
       /\ Len(agg.m_instructionsBetweenLoadOrStore)
            = SumMap(agg.m_loadInstructionLabels) + SumMap(agg.m_storeInstructionLabels)
       /\ \A i \in DOMAIN agg.m_instructionsBetweenLoadOrStore :
            agg.m_instructionsBetweenLoadOrStore[i] >= 1
       /\ SumMap(agg.m_computeOps) = SumMap(agg.m_instructionWidth)

\* A kernel invocation whose aggregate holds a merged group that executed a
\* load and a store, the second of them directly after the first.
C27_Witness ==
  /\ KernelRunning
  /\ fault = "none"
  /\ SumMap(agg.m_loadInstructionLabels) = 1
  /\ SumMap(agg.m_storeInstructionLabels) = 1
  /\ agg.m_instructionsBetweenLoadOrStore = <<1, 1>>
  /\ SumMap(agg.m_instructionWidth) = 2

=============================================================================
